---- MODULE Spec2Model ----
(***************************************************************************)
(* Model of the drawing board's history store (hooks/useDrawingState.ts)   *)
(* as the controller page drives it, of its sync engine (useCanvasSync)    *)
(* between the controller page and a display page, of its persistence      *)
(* gateway (hooks/usePersistence.ts) and of the display page's fallback.   *)
(*                                                                         *)
(* The hook keeps the React state `history` and `selectedId` and the ref   *)
(* `skipHistoryRef`.  Its callbacks are closures: the controller-only      *)
(* mutators read `history.present` and `selectedId` as they were at the    *)
(* render that created the callback, while the functional updaters passed  *)
(* to setHistory read the state as it is when the update is applied.       *)
(*                                                                         *)
(* `rendered` holds what the callbacks of the latest render close over.    *)
(* A state update made in a user-input handler is rendered before the next *)
(* input event; one made from a channel message or after an await is       *)
(* rendered later (action Render), so an input handler may run before it.  *)
(* `keydown` is the present closed over by the page's keydown listener,    *)
(* which is re-registered only when selectedId changes.                    *)
(***************************************************************************)
EXTENDS Integers, Sequences, FiniteSets, TLC

VARIABLES
    history,         \* useState<HistoryState>: [past, present, future]
    selectedId,      \* useState<string | null>
    skipHistoryRef,  \* useRef(false)
    rendered,        \* [present, selectedId] closed over by the callbacks
    keydown,         \* present closed over by the keydown listener
    op,              \* the last call made on the hook (observation)
    steps,           \* number of calls made so far
    pendingUndoRedoRef, \* controller page: useRef(false)
    cChan,           \* controller: status of the channel of the sync effect
    cTimers,         \* controller: pending delayed full_sync sends, and
                     \* the scene when the latest was scheduled
    toCtl,           \* request_sync messages in flight to the controller
    toDisp,          \* messages in flight to the display
    display,         \* the display page: its channel, scene and timers
    ev,              \* what the latest step sent and received
    db,              \* durable store: the drawings table, by record id
    cache,           \* localStorage entry of the session
    currentDrawingId,   \* usePersistence: useState<string | null>
    lastSavedRef,    \* usePersistence: useRef<string>('')
    error,           \* usePersistence: useState<string | null>
    page,            \* controller page: mounted, renders due, the
                     \* currentDrawingId and drawings of its last render
    autosaveTimerRef,   \* pending autosave timeout with what it closes over
    calls,           \* durable-store calls awaiting their response
    pev,             \* what the latest step of the gateway did
    fallback         \* display page: ready/fallback state and its timeout

\* The state of the sync engine and of the display client
syncVars == <<pendingUndoRedoRef, cChan, cTimers, toCtl, toDisp, display, ev>>

\* The state of the persistence gateway and of the display's fallback
persistVars == <<db, cache, currentDrawingId, lastSavedRef, error, page,
                 autosaveTimerRef, calls, pev, fallback>>

vars == <<history, selectedId, skipHistoryRef, rendered, keydown, op, steps,
          syncVars, persistVars>>

----------------------------------------------------------------------------
(* Program constants and bounds *)

MAX_HISTORY == 50

\* selectedId = null
NoId == 0

\* Bounds of the model
MaxShapes == 2
MaxSteps == 4
DepthMutations == 60

\* Shape ids (uuids in the program) and the values of a shape's other fields
Ids == {1, 2}
Vers == {0, 1}

\* A shape is a value record; identity is the id, v stands for the rest of
\* its fields (geometry, colour, ...).
Shape == [id : Ids, v : Vers]

Sh(i, w) == [id |-> i, v |-> w]

\* Scenes handed to setShapes / syncFullSync by their callers.
SceneInputs == {<<Sh(1, 0)>>, <<Sh(2, 1), Sh(1, 1)>>}

----------------------------------------------------------------------------
(* Array helpers, as the JavaScript built-ins compute them *)

\* Array.prototype.slice(-n)
SliceLast(s, n) ==
    IF Len(s) <= n THEN s ELSE SubSeq(s, Len(s) - n + 1, Len(s))

\* present.map(shape => shape.id === updated.id ? updated : shape)
MapUpdate(scene, updated) ==
    [i \in 1..Len(scene) |->
        IF scene[i].id = updated.id THEN updated ELSE scene[i]]

\* present.filter(shape => shape.id !== shapeId)
FilterOut(scene, shapeId) ==
    SelectSeq(scene, LAMBDA s : s.id # shapeId)

\* present.findIndex(s => s.id === id): 0-based, -1 when absent
FindIndex(scene, id) ==
    IF \E i \in 1..Len(scene) : scene[i].id = id
    THEN (CHOOSE i \in 1..Len(scene) :
            /\ scene[i].id = id
            /\ \A j \in 1..(i - 1) : scene[j].id # id) - 1
    ELSE -1

\* present.find(s => s.id === id): the first match (callers test absence)
Find(scene, id) == scene[FindIndex(scene, id) + 1]

\* [a[i], a[j]] = [a[j], a[i]] on a copy, 0-based indices
Swap(scene, i, j) ==
    [k \in 1..Len(scene) |->
        IF k = i + 1 THEN scene[j + 1]
        ELSE IF k = j + 1 THEN scene[i + 1]
        ELSE scene[k]]

----------------------------------------------------------------------------
(* The history store.  A mutator that reads its closure takes it as c.      *)

\* pushToHistory that leaves future as it is
pushToHistory_KeepsFuture(newShapes, skip) ==
    IF skip
    THEN /\ skipHistoryRef' = FALSE
         /\ history' = [history EXCEPT !.present = newShapes]
    ELSE /\ skipHistoryRef' = skipHistoryRef
         /\ history' = [past    |-> SliceLast(Append(history.past,
                                                     history.present),
                                              MAX_HISTORY),
                        present |-> newShapes,
                        future  |-> history.future]

\* pushToHistory without .slice(-MAX_HISTORY)
pushToHistory_NoTrim(newShapes, skip) ==
    IF skip
    THEN /\ skipHistoryRef' = FALSE
         /\ history' = [history EXCEPT !.present = newShapes]
    ELSE /\ skipHistoryRef' = skipHistoryRef
         /\ history' = [past    |-> Append(history.past, history.present),
                        present |-> newShapes,
                        future  |-> <<>>]

\* pushToHistory(newShapes); skip is the value of skipHistoryRef.current
\* when it is called.
pushToHistory(newShapes, skip) ==
    IF skip
    THEN /\ skipHistoryRef' = FALSE
         /\ history' = [history EXCEPT !.present = newShapes]
    ELSE /\ skipHistoryRef' = skipHistoryRef
         /\ history' = [past    |-> SliceLast(Append(history.past,
                                                     history.present),
                                              MAX_HISTORY),
                        present |-> newShapes,
                        future  |-> <<>>]

addShape(shape, c) ==
    /\ pushToHistory(Append(c.present, shape), skipHistoryRef)
    /\ UNCHANGED selectedId

updateShape(updatedShape, c) ==
    /\ pushToHistory(MapUpdate(c.present, updatedShape), skipHistoryRef)
    /\ UNCHANGED selectedId

deleteShape(shapeId, c) ==
    /\ pushToHistory(FilterOut(c.present, shapeId), skipHistoryRef)
    /\ selectedId' = IF c.selectedId = shapeId THEN NoId ELSE selectedId

clearAll ==
    /\ pushToHistory(<<>>, skipHistoryRef)
    /\ selectedId' = NoId

\* setShapes that raises the skip flag and sets present itself, leaving the
\* flag for the next pushToHistory
setShapes_FlagLeft(newShapes, addToHistory) ==
    /\ IF addToHistory
       THEN /\ history' = [past    |-> SliceLast(Append(history.past,
                                                        history.present),
                                                 MAX_HISTORY),
                           present |-> newShapes,
                           future  |-> <<>>]
            /\ skipHistoryRef' = skipHistoryRef
       ELSE /\ history' = [history EXCEPT !.present = newShapes]
            /\ skipHistoryRef' = TRUE
    /\ UNCHANGED selectedId

\* setShapes(newShapes, addToHistory = true)
setShapes(newShapes, addToHistory) ==
    /\ pushToHistory(newShapes,
                     IF addToHistory THEN skipHistoryRef ELSE TRUE)
    /\ UNCHANGED selectedId

\* undo that pushes the old present at the end of future
undo_AppendsFuture ==
    /\ history' =
          IF Len(history.past) = 0 THEN history
          ELSE [past    |-> SubSeq(history.past, 1, Len(history.past) - 1),
                present |-> history.past[Len(history.past)],
                future  |-> Append(history.future, history.present)]
    /\ selectedId' = NoId
    /\ UNCHANGED skipHistoryRef

\* undo that leaves past as it is
undo_KeepsPast ==
    /\ history' =
          IF Len(history.past) = 0 THEN history
          ELSE [past    |-> history.past,
                present |-> history.past[Len(history.past)],
                future  |-> <<history.present>> \o history.future]
    /\ selectedId' = NoId
    /\ UNCHANGED skipHistoryRef

undo ==
    /\ history' =
          IF Len(history.past) = 0 THEN history
          ELSE [past    |-> SubSeq(history.past, 1, Len(history.past) - 1),
                present |-> history.past[Len(history.past)],
                future  |-> <<history.present>> \o history.future]
    /\ selectedId' = NoId
    /\ UNCHANGED skipHistoryRef

redo ==
    /\ history' =
          IF Len(history.future) = 0 THEN history
          ELSE [past    |-> Append(history.past, history.present),
                present |-> history.future[1],
                future  |-> Tail(history.future)]
    /\ selectedId' = NoId
    /\ UNCHANGED skipHistoryRef

canUndo == Len(history.past) > 0
canRedo == Len(history.future) > 0

setSelectedId(id) ==
    /\ selectedId' = id
    /\ UNCHANGED <<history, skipHistoryRef>>

bringForward(c) ==
    LET index == FindIndex(c.present, c.selectedId) IN
    /\ IF c.selectedId = NoId \/ index = -1 \/ index = Len(c.present) - 1
       THEN UNCHANGED <<history, skipHistoryRef>>
       ELSE pushToHistory(Swap(c.present, index, index + 1), skipHistoryRef)
    /\ UNCHANGED selectedId

sendBackward(c) ==
    LET index == FindIndex(c.present, c.selectedId) IN
    /\ IF c.selectedId = NoId \/ index <= 0
       THEN UNCHANGED <<history, skipHistoryRef>>
       ELSE pushToHistory(Swap(c.present, index, index - 1), skipHistoryRef)
    /\ UNCHANGED selectedId

bringToFront(c) ==
    /\ IF c.selectedId = NoId \/ FindIndex(c.present, c.selectedId) = -1
       THEN UNCHANGED <<history, skipHistoryRef>>
       ELSE pushToHistory(Append(FilterOut(c.present, c.selectedId),
                                 Find(c.present, c.selectedId)),
                          skipHistoryRef)
    /\ UNCHANGED selectedId

\* sendToBack that sets present without committing
sendToBack_NoCommit(c) ==
    /\ IF c.selectedId = NoId \/ FindIndex(c.present, c.selectedId) = -1
       THEN UNCHANGED <<history, skipHistoryRef>>
       ELSE /\ history' = [history EXCEPT
                             !.present = <<Find(c.present, c.selectedId)>>
                                 \o FilterOut(c.present, c.selectedId)]
            /\ UNCHANGED skipHistoryRef
    /\ UNCHANGED selectedId

sendToBack(c) ==
    /\ IF c.selectedId = NoId \/ FindIndex(c.present, c.selectedId) = -1
       THEN UNCHANGED <<history, skipHistoryRef>>
       ELSE pushToHistory(<<Find(c.present, c.selectedId)>>
                              \o FilterOut(c.present, c.selectedId),
                          skipHistoryRef)
    /\ UNCHANGED selectedId

(* Sync-receiving entry points: functional updates of present only *)

syncAddShape(shape) ==
    /\ history' = [history EXCEPT !.present = Append(history.present, shape)]
    /\ UNCHANGED <<selectedId, skipHistoryRef>>

syncUpdateShape(updatedShape) ==
    /\ history' = [history EXCEPT
                      !.present = MapUpdate(history.present, updatedShape)]
    /\ UNCHANGED <<selectedId, skipHistoryRef>>

syncDeleteShape(shapeId, c) ==
    /\ history' = [history EXCEPT
                      !.present = FilterOut(history.present, shapeId)]
    /\ selectedId' = IF c.selectedId = shapeId THEN NoId ELSE selectedId
    /\ UNCHANGED skipHistoryRef

syncClear ==
    /\ history' = [history EXCEPT !.present = <<>>]
    /\ selectedId' = NoId
    /\ UNCHANGED skipHistoryRef

\* syncFullSync that goes through the history path
syncFullSync_Commits(newShapes) ==
    /\ history' = [past    |-> SliceLast(Append(history.past, history.present),
                                         MAX_HISTORY),
                   present |-> newShapes,
                   future  |-> <<>>]
    /\ UNCHANGED <<selectedId, skipHistoryRef>>

\* syncFullSync that merges the received scene into present
syncFullSync_Merges(newShapes) ==
    /\ history' = [history EXCEPT !.present = history.present \o newShapes]
    /\ UNCHANGED <<selectedId, skipHistoryRef>>

syncFullSync(newShapes) ==
    /\ history' = [history EXCEPT !.present = newShapes]
    /\ UNCHANGED <<selectedId, skipHistoryRef>>

----------------------------------------------------------------------------
(* Observation of the calls made on the hook *)

NoShape == [id |-> NoId, v |-> 0]

\* The record of the call being made: its kind and argument, whether the
\* call before it was setShapes(scene, false) or the same call with the same
\* argument (repeat), and whether a redo was
\* available when it was made.  chain/S/X follow an add (of X, made when
\* present was S) that is immediately followed by undo and then redo.
NextOp(kind, arg) ==
    LET c == IF kind = "add" THEN 1
             ELSE IF kind = "undo" /\ op.chain = 1 THEN 2
             ELSE IF kind = "redo" /\ op.chain = 2 THEN 3
             ELSE 0
    IN [tick      |-> 1 - op.tick,
        kind      |-> kind,
        arg       |-> arg,
        afterLoad |-> op.kind = "setSceneNoHistory",
        repeat    |-> op.kind = kind /\ op.arg = arg,
        redoable  |-> Len(history.future) > 0,
        chain     |-> c,
        S         |-> IF c = 1 THEN history.present
                      ELSE IF c = 0 THEN <<>> ELSE op.S,
        X         |-> IF c = 1 THEN arg
                      ELSE IF c = 0 THEN NoShape ELSE op.X]

----------------------------------------------------------------------------
(* The persistence gateway's data (hooks/usePersistence.ts) *)

\* Durable records the session can hold
MaxRecs == 2

RecIds == 1..MaxRecs

\* currentDrawingId = null
NoDrawing == 0

\* Names a user types in the save dialog; NoName is the argument left out
Names == {"a", "b"}

NoName == "-"

\* The name an insert without a name gets: Drawing <local time>
DefaultName == "Drawing"

\* A row of the drawings table; live is FALSE where the table has no row
NoRecord == [live |-> FALSE, name |-> NoName, data |-> <<>>, at |-> 0]

\* JSON.stringify(shapes): a string that determines the scene, never the
\* empty string
Ser(scene) == <<scene>>

\* ''
EmptyString == <<>>

\* localStorage.getItem giving null
NoEntry == <<>>

\* No autosave timeout pending
NoTimer == [armed |-> FALSE, shapes |-> <<>>, id |-> NoDrawing]

\* What a step of the gateway did: the call it completed or skipped, whether
\* a row was written, and what the call returned (ok: the id, the shapes or
\* true; otherwise null or false)
Did(kind, id, wrote, ok) ==
    [kind |-> kind, id |-> id, wrote |-> wrote, ok |-> ok]

NoPev == Did("none", NoDrawing, FALSE, FALSE)

\* A value that may be null: null, or Some(x)
Null == <<>>

Some(x) == <<x>>

\* The display page after construction: not ready, no fallback loaded,
\* fallbackShapes null, the drawings list empty, no timeout armed, no
\* loadDrawing awaited (won: the channel was subscribed before any fallback
\* load began; flips: the status changes of the channel so far)
NoFallback ==
    [isReady |-> FALSE, fallbackLoaded |-> FALSE, fallbackShapes |-> Null,
     drawings |-> <<>>, listed |-> FALSE,
     timer |-> [armed |-> FALSE, fallbackLoaded |-> FALSE, drawings |-> <<>>],
     loading |-> 0, did |-> "none", won |-> FALSE, flips |-> 0]

----------------------------------------------------------------------------
(* The controller page (ControlPageContent) *)

Init ==
    /\ history = [past |-> <<>>, present |-> <<>>, future |-> <<>>]
    /\ selectedId = NoId
    /\ skipHistoryRef = FALSE
    /\ rendered = [present |-> <<>>, selectedId |-> NoId]
    /\ keydown = <<>>
    /\ op = [tick |-> 0, kind |-> "init", arg |-> NoId,
             afterLoad |-> FALSE, redoable |-> FALSE,
             repeat |-> FALSE,
             chain |-> 0, S |-> <<>>, X |-> NoShape]
    /\ steps = 0
    /\ pendingUndoRedoRef = FALSE
    /\ cChan = "subscribing"
    /\ cTimers = [live |-> 0, stale |-> 0, seen |-> <<>>]
    /\ toCtl = 0
    /\ toDisp = {}
    /\ display = [mounted |-> TRUE, status |-> "subscribing",
                  present |-> <<>>, live |-> 0, stale |-> 0]
    /\ ev = [sent |-> <<>>, got |-> <<>>, beat |-> FALSE]
    /\ db = [r \in RecIds |-> NoRecord]
    /\ cache = NoEntry
    /\ currentDrawingId = NoDrawing
    /\ lastSavedRef = EmptyString
    /\ error = "none"
    /\ page = [mounted |-> TRUE, pending |-> FALSE, relist |-> FALSE,
               currentDrawingId |-> NoDrawing, loaded |-> NoDrawing,
               drawings |-> {}, cached |-> "no",
               closed |-> FALSE]
    /\ autosaveTimerRef = NoTimer
    /\ calls = {}
    /\ pev = NoPev
    /\ fallback = NoFallback

\* The component renders the state s (the next state, or the current one):
\* the callbacks are recreated over it, and the keydown listener is
\* re-registered if selectedId changed.
Renders(s) ==
    /\ rendered' = s
    /\ keydown' = IF s.selectedId # rendered.selectedId
                  THEN s.present ELSE keydown

\* A pending state update is rendered.
Render ==
    /\ rendered # [present |-> history.present, selectedId |-> selectedId]
    /\ Renders([present |-> history.present, selectedId |-> selectedId])
    /\ UNCHANGED <<history, selectedId, skipHistoryRef, op, steps, syncVars,
                 persistVars>>

\* A call made in a user-input handler: rendered before the next event.
Input(kind, arg, A) ==
    /\ steps < MaxSteps
    /\ A
    /\ op' = NextOp(kind, arg)
    /\ steps' = steps + 1
    /\ Renders([present |-> history'.present, selectedId |-> selectedId'])
    /\ UNCHANGED <<syncVars, persistVars>>

\* A call made from a channel message or after an await: rendered later.
Async(kind, arg, A) ==
    /\ steps < MaxSteps
    /\ A
    /\ op' = NextOp(kind, arg)
    /\ steps' = steps + 1
    /\ UNCHANGED <<rendered, keydown, syncVars,
                 persistVars>>

\* Ids in use anywhere in the hook's state: the canvas gives every new shape
\* a fresh uuid, so a locally added shape has none of them.
SceneIds(scene) == {scene[i].id : i \in 1..Len(scene)}

UsedIds ==
    SceneIds(history.present) \cup SceneIds(rendered.present)
    \cup SceneIds(keydown)
    \cup UNION {SceneIds(history.past[i]) : i \in 1..Len(history.past)}
    \cup UNION {SceneIds(history.future[i]) : i \in 1..Len(history.future)}

Fits(scene) == Len(scene) < MaxShapes

\* handleShapeAdd, from the canvas (mouse up, text prompt)
Add ==
    \E id \in Ids \ UsedIds :
        /\ Fits(rendered.present)
        /\ Input("add", Sh(id, 0), addShape(Sh(id, 0), rendered))

\* handleShapeUpdate: the canvas updates a shape it displays (drag end,
\* transform end)
Update ==
    \E id \in SceneIds(rendered.present) :
        Input("update", Sh(id, 1), updateShape(Sh(id, 1), rendered))

\* handleDeleteSelected from the toolbar
Delete ==
    /\ rendered.selectedId # NoId
    /\ Input("delete", rendered.selectedId,
             deleteShape(rendered.selectedId, rendered))

\* handleDeleteSelected from the keydown listener (Delete / Backspace)
DeleteKey ==
    /\ rendered.selectedId # NoId
    /\ Input("deleteKey", rendered.selectedId,
             deleteShape(rendered.selectedId,
                         [present |-> keydown,
                          selectedId |-> rendered.selectedId]))

\* handleClear, handleNew
ClearAll == Input("clearAll", NoId, clearAll)

\* setShapes with history
SetScene ==
    \E scene \in SceneInputs : Input("setScene", scene, setShapes(scene, TRUE))

\* setShapes(scene, false): handleLoad after its await, and the mount effect
Load ==
    \E scene \in SceneInputs :
        Async("setSceneNoHistory", scene, setShapes(scene, FALSE))

Undo == Input("undo", NoId, undo)

Redo == Input("redo", NoId, redo)

\* onSelect: the canvas selects a shape it displays, or nothing
Select ==
    \E id \in SceneIds(rendered.present) \cup {NoId} :
        /\ id # selectedId
        /\ setSelectedId(id)
        /\ Renders([present |-> history.present, selectedId |-> id])
        /\ UNCHANGED <<op, steps, syncVars,
                 persistVars>>

BringForward == Input("forward", NoId, bringForward(rendered))

SendBackward == Input("backward", NoId, sendBackward(rendered))

BringToFront == Input("front", NoId, bringToFront(rendered))

SendToBack == Input("back", NoId, sendToBack(rendered))

(* Messages of the session channel, handed to the sync entry points *)

SyncAdd ==
    \E id \in Ids :
        /\ Fits(history.present)
        /\ Async("syncAdd", Sh(id, 0), syncAddShape(Sh(id, 0)))

SyncUpdate ==
    \E id \in Ids : Async("syncUpdate", Sh(id, 1), syncUpdateShape(Sh(id, 1)))

SyncDelete ==
    \E id \in Ids : Async("syncDelete", id, syncDeleteShape(id, rendered))

SyncClear == Async("syncClear", NoId, syncClear)

SyncFullSync ==
    \E scene \in SceneInputs : Async("syncFullSync", scene, syncFullSync(scene))

Next ==
    \/ Render
    \/ Select
    \/ Add
    \/ Update
    \/ Delete
    \/ DeleteKey
    \/ ClearAll
    \/ SetScene
    \/ Load
    \/ Undo
    \/ Redo
    \/ BringForward
    \/ SendBackward
    \/ BringToFront
    \/ SendToBack
    \/ SyncAdd
    \/ SyncUpdate
    \/ SyncDelete
    \/ SyncClear
    \/ SyncFullSync

Spec == Init /\ [][Next]_vars

----------------------------------------------------------------------------
(* A long editing session: DepthMutations mutations one after another, with  *)
(* undo and redo at any point of it and remote changes arriving at its end.  *)
(* Here steps counts the mutations made.                                     *)

\* The scene the n-th mutation of the session leaves (every third one is a
\* clearAll); SceneAt(0) is the scene the session starts from.
SceneAt(n) == IF n % 3 = 0 THEN <<>> ELSE <<Sh(1, n)>>

\* A call made in a user-input handler of the session
DepthInput(kind, arg, A) ==
    /\ A
    /\ op' = NextOp(kind, arg)
    /\ Renders([present |-> history'.present, selectedId |-> selectedId'])
    /\ UNCHANGED <<syncVars, persistVars>>

\* A call made from a channel message, once the mutations are made
DepthAsync(kind, arg, A) ==
    /\ steps = DepthMutations
    /\ history.future = <<>>
    /\ A
    /\ op' = NextOp(kind, arg)
    /\ UNCHANGED <<rendered, keydown, steps, syncVars,
                 persistVars>>

DepthSetScene ==
    /\ history.future = <<>>
    /\ steps < DepthMutations
    /\ (steps + 1) % 3 # 0
    /\ DepthInput("setScene", SceneAt(steps + 1),
                  setShapes(SceneAt(steps + 1), TRUE))
    /\ steps' = steps + 1

DepthClearAll ==
    /\ history.future = <<>>
    /\ steps < DepthMutations
    /\ (steps + 1) % 3 = 0
    /\ DepthInput("clearAll", NoId, clearAll)
    /\ steps' = steps + 1

DepthUndo == DepthInput("undo", NoId, undo) /\ UNCHANGED steps

DepthRedo == DepthInput("redo", NoId, redo) /\ UNCHANGED steps

DepthSyncAdd ==
    /\ Fits(history.present)
    /\ DepthAsync("syncAdd", Sh(2, 0), syncAddShape(Sh(2, 0)))

DepthSyncUpdate ==
    \E id \in Ids :
        DepthAsync("syncUpdate", Sh(id, 1), syncUpdateShape(Sh(id, 1)))

DepthSyncDelete ==
    \E id \in Ids : DepthAsync("syncDelete", id, syncDeleteShape(id, rendered))

DepthSyncClear == DepthAsync("syncClear", NoId, syncClear)

DepthSyncFullSync ==
    \E scene \in SceneInputs :
        DepthAsync("syncFullSync", scene, syncFullSync(scene))

\* setShapes(scene, false), once the mutations are made
DepthLoad ==
    \E scene \in SceneInputs :
        DepthAsync("setSceneNoHistory", scene, setShapes(scene, FALSE))

NextDepth ==
    \/ Render
    \/ DepthSetScene
    \/ DepthClearAll
    \/ DepthUndo
    \/ DepthRedo
    \/ DepthSyncAdd
    \/ DepthSyncUpdate
    \/ DepthSyncDelete
    \/ DepthSyncClear
    \/ DepthSyncFullSync
    \/ DepthLoad

SpecDepth == Init /\ [][NextDepth]_vars

----------------------------------------------------------------------------
(* The sync engine (useCanvasSync): the controller page and one display     *)
(* page on the session's broadcast channel.  The channel is lossy and       *)
(* unordered and delivers a message at most once: toDisp is the set of      *)
(* messages in flight to the display, toCtl counts the request_sync         *)
(* messages in flight to the controller.  Here steps counts the calls the   *)
(* controller's user makes, and ev holds the messages the latest step       *)
(* handed to the channel and received from it; op is left alone.            *)

\* Bounds of the session
MaxCtlSteps == 2
MaxNet == 2
MaxTimers == 1

\* CanvasSyncMessage: type and payload (a shape, a shape id, a scene, null)
Msg(type, shape, id, scene) ==
    [type |-> type, shape |-> shape, id |-> id, scene |-> scene]

\* broadcastAddShape .. requestSync: the message each hands to broadcast
AddMsg(shape) == Msg("add_shape", shape, NoId, <<>>)
UpdateMsg(shape) == Msg("update_shape", shape, NoId, <<>>)
DeleteMsg(shapeId) == Msg("delete_shape", NoShape, shapeId, <<>>)
ClearMsg == Msg("clear", NoShape, NoId, <<>>)
FullSyncMsg(shapes) == Msg("full_sync", NoShape, NoId, shapes)
RequestSyncMsg == Msg("request_sync", NoShape, NoId, <<>>)

\* channel.send towards the display, fire and forget: the message is in
\* flight or lost, and lost when the channel already carries MaxNet
\* messages.  The set of the possible outcomes.
Put(net, m) ==
    IF Cardinality(net) < MaxNet THEN {net, net \cup {m}} ELSE {net}

RECURSIVE PutAll(_, _)
PutAll(net, msgs) ==
    IF msgs = <<>> THEN {net}
    ELSE UNION {PutAll(n, Tail(msgs)) : n \in Put(net, Head(msgs))}

\* channel.send of a request_sync towards the controller
PutRequest(n) == IF n < MaxNet THEN {n, n + 1} ELSE {n}

\* currentShapesRef.current: the shapes of the controller's latest render
currentShapesRef == rendered.present

\* The record of a step: the messages it handed to the channel, the
\* message it received from it, and whether it was the display's interval
Event(sent, got) == [sent |-> sent, got |-> got, beat |-> FALSE]

Beat(sent) == [sent |-> sent, got |-> <<>>, beat |-> TRUE]

(* The controller page *)

\* The sync effect of the controller: its dependency syncDeleteShape is
\* recreated when selectedId changes, so a render with another selection
\* unsubscribes the channel and subscribes a new one.  The timers of the
\* old channel stay pending.
ChannelEffect(sel) ==
    IF sel # rendered.selectedId
    THEN /\ cChan' = "subscribing"
         /\ cTimers' = [cTimers EXCEPT !.live = 0,
                                      !.stale = cTimers.stale + cTimers.live]
    ELSE UNCHANGED <<cChan, cTimers>>

\* The controller renders after a handler that handed msgs to the channel
\* and left pendingUndoRedoRef at pend; changed says whether the handler
\* set a new present.  The effects run: the sync effect, and the full sync
\* after undo/redo when shapes changed.
CtlRenders(msgs, pend, changed) ==
    LET shapesChanged == changed \/ rendered.present # history.present
        effect == IF pend /\ shapesChanged
                  THEN <<FullSyncMsg(history'.present)>> ELSE <<>>
    IN /\ Renders([present |-> history'.present, selectedId |-> selectedId'])
       /\ ChannelEffect(selectedId')
       /\ pendingUndoRedoRef' = (pend /\ ~shapesChanged)
       /\ toDisp' \in PutAll(toDisp, msgs \o effect)
       /\ ev' = Event(msgs \o effect, <<>>)
       /\ UNCHANGED <<op, toCtl, display, persistVars>>

\* A handler of the controller page run by a user input
CtlStep(A, msgs, pend, changed) ==
    /\ steps < MaxCtlSteps
    /\ A
    /\ steps' = steps + 1
    /\ CtlRenders(msgs, pend, changed)

\* The early returns of bringForward .. sendToBack
ReturnsEarly(kind, c) ==
    LET index == FindIndex(c.present, c.selectedId) IN
    \/ c.selectedId = NoId
    \/ index = -1
    \/ kind = "forward" /\ index = Len(c.present) - 1
    \/ kind = "backward" /\ index = 0

\* handleShapeAdd
CtlAdd ==
    \E id \in Ids \ UsedIds :
        /\ Fits(rendered.present)
        /\ CtlStep(addShape(Sh(id, 0), rendered),
                   <<AddMsg(Sh(id, 0))>>, pendingUndoRedoRef, TRUE)

\* handleShapeUpdate
CtlUpdate ==
    \E id \in SceneIds(rendered.present) :
        CtlStep(updateShape(Sh(id, 1), rendered),
                <<UpdateMsg(Sh(id, 1))>>, pendingUndoRedoRef, TRUE)

\* handleDeleteSelected
CtlDelete ==
    /\ rendered.selectedId # NoId
    /\ CtlStep(deleteShape(rendered.selectedId, rendered),
               <<DeleteMsg(rendered.selectedId)>>, pendingUndoRedoRef, TRUE)

\* Variant of CtlClear: the clear is broadcast and the scene is left alone
CtlClear_BroadcastOnly ==
    CtlStep(UNCHANGED <<history, selectedId, skipHistoryRef>>,
            <<ClearMsg>>, pendingUndoRedoRef, TRUE)

\* handleClear (confirmed), handleNew
CtlClear ==
    CtlStep(clearAll, <<ClearMsg>>, pendingUndoRedoRef, TRUE)

\* handleUndo
CtlUndo == CtlStep(undo, <<>>, TRUE, history.past # <<>>)

\* handleRedo
CtlRedo == CtlStep(redo, <<>>, TRUE, history.future # <<>>)

\* The toolbar's reorder buttons call the hook directly
CtlBringForward ==
    CtlStep(bringForward(rendered), <<>>,
            pendingUndoRedoRef, ~ReturnsEarly("forward", rendered))

CtlSendBackward ==
    CtlStep(sendBackward(rendered), <<>>,
            pendingUndoRedoRef, ~ReturnsEarly("backward", rendered))

CtlBringToFront ==
    CtlStep(bringToFront(rendered), <<>>,
            pendingUndoRedoRef, ~ReturnsEarly("front", rendered))

CtlSendToBack ==
    CtlStep(sendToBack(rendered), <<>>,
            pendingUndoRedoRef, ~ReturnsEarly("back", rendered))

\* onSelect
CtlSelect ==
    \E id \in SceneIds(rendered.present) \cup {NoId} :
        /\ id # selectedId
        /\ setSelectedId(id)
        /\ UNCHANGED steps
        /\ CtlRenders(<<>>, pendingUndoRedoRef, FALSE)

\* handleLoad after its await: rendered later
CtlLoad ==
    \E scene \in SceneInputs :
        /\ steps < MaxCtlSteps
        /\ setShapes(scene, FALSE)
        /\ steps' = steps + 1
        /\ toDisp' \in Put(toDisp, FullSyncMsg(scene))
        /\ ev' = Event(<<FullSyncMsg(scene)>>, <<>>)
        /\ UNCHANGED <<persistVars, rendered, keydown, op, pendingUndoRedoRef, cChan,
                       cTimers, toCtl, display>>

\* The pending render of the controller
CtlRender ==
    /\ rendered.present # history.present
    /\ UNCHANGED <<history, selectedId, skipHistoryRef, steps>>
    /\ CtlRenders(<<>>, pendingUndoRedoRef, FALSE)

\* subscribe callback of the controller, status SUBSCRIBED
CtlSubscribed ==
    /\ cChan = "subscribing"
    /\ cChan' = "subscribed"
    /\ ev' = Event(<<>>, <<>>)
    /\ UNCHANGED <<persistVars,
                   history, selectedId, skipHistoryRef, rendered, keydown, op,
                   steps, pendingUndoRedoRef, cTimers, toCtl, toDisp, display>>

\* Variant of CtlRequestSync: the request is consumed and no send is scheduled
CtlRequestSync_NoReply ==
    /\ cChan = "subscribed"
    /\ toCtl > 0
    /\ toCtl' = toCtl - 1
    /\ ev' = Event(<<>>, <<RequestSyncMsg>>)
    /\ UNCHANGED <<persistVars,
                   history, selectedId, skipHistoryRef, rendered, keydown, op,
                   steps, pendingUndoRedoRef, cChan, cTimers, toDisp, display>>

\* The controller receives request_sync: isController, so the full_sync is
\* scheduled (setTimeout 10).
CtlRequestSync ==
    /\ cChan = "subscribed"
    /\ toCtl > 0
    /\ cTimers.live + cTimers.stale < MaxTimers
    /\ toCtl' = toCtl - 1
    /\ cTimers' = [cTimers EXCEPT !.live = @ + 1, !.seen = currentShapesRef]
    /\ ev' = Event(<<>>, <<RequestSyncMsg>>)
    /\ UNCHANGED <<persistVars,
                   history, selectedId, skipHistoryRef, rendered, keydown, op,
                   steps, pendingUndoRedoRef, cChan, toDisp, display>>

\* Variant of CtlFullSync: the payload is the scene the controller had when
\* the request_sync arrived
CtlFullSync_Snapshot ==
    /\ cTimers.live > 0
    /\ cTimers' = [cTimers EXCEPT !.live = @ - 1]
    /\ toDisp' \in Put(toDisp, FullSyncMsg(cTimers.seen))
    /\ ev' = Event(<<FullSyncMsg(cTimers.seen)>>, <<>>)
    /\ UNCHANGED <<persistVars,
                   history, selectedId, skipHistoryRef, rendered, keydown, op,
                   steps, pendingUndoRedoRef, cChan, toCtl, display>>

\* The delayed send fires: full_sync with currentShapesRef.current
CtlFullSync ==
    /\ cTimers.live > 0
    /\ cTimers' = [cTimers EXCEPT !.live = @ - 1]
    /\ toDisp' \in Put(toDisp, FullSyncMsg(currentShapesRef))
    /\ ev' = Event(<<FullSyncMsg(currentShapesRef)>>, <<>>)
    /\ UNCHANGED <<persistVars,
                   history, selectedId, skipHistoryRef, rendered, keydown, op,
                   steps, pendingUndoRedoRef, cChan, toCtl, display>>

\* The delayed send of a channel that was unsubscribed meanwhile fires: the
\* cleanup does not clear the timer, and channel.send is called on the old
\* channel, which may or may not transmit.
CtlFullSyncLate ==
    /\ cTimers.stale > 0
    /\ cTimers' = [cTimers EXCEPT !.stale = @ - 1]
    /\ toDisp' \in Put(toDisp, FullSyncMsg(currentShapesRef))
    /\ ev' = Event(<<FullSyncMsg(currentShapesRef)>>, <<>>)
    /\ UNCHANGED <<persistVars,
                   history, selectedId, skipHistoryRef, rendered, keydown, op,
                   steps, pendingUndoRedoRef, cChan, toCtl, display>>

(* The display page *)

\* The controller's side of the session, which the display's steps leave
ctlVars == <<history, selectedId, skipHistoryRef, rendered, keydown, op,
             steps, pendingUndoRedoRef, cChan, cTimers>>

\* isConnected of the display's useCanvasSync: set by the subscribe callback
isConnected == display.mounted /\ display.status = "subscribed"

\* Variant of Dispatch: full_sync adds the payload after the shapes the
\* display already has
Dispatch_FullSyncMerges(present, m) ==
    CASE m.type = "add_shape" -> Append(present, m.shape)
      [] m.type = "update_shape" -> MapUpdate(present, m.shape)
      [] m.type = "delete_shape" -> FilterOut(present, m.id)
      [] m.type = "clear" -> <<>>
      [] m.type = "full_sync" -> present \o m.scene
      [] OTHER -> present

\* Variant of Dispatch: update_shape messages are dropped
Dispatch_UpdateIgnored(present, m) ==
    CASE m.type = "add_shape" -> Append(present, m.shape)
      [] m.type = "delete_shape" -> FilterOut(present, m.id)
      [] m.type = "clear" -> <<>>
      [] m.type = "full_sync" -> m.scene
      [] OTHER -> present

\* The broadcast handler with isController = false: the sync entry point of
\* the message's type, applied to present
Dispatch(present, m) ==
    CASE m.type = "add_shape" -> Append(present, m.shape)
      [] m.type = "update_shape" -> MapUpdate(present, m.shape)
      [] m.type = "delete_shape" -> FilterOut(present, m.id)
      [] m.type = "clear" -> <<>>
      [] m.type = "full_sync" -> m.scene
      [] OTHER -> present

\* The display page is opened: empty scene, channel subscribing
DisplayMount ==
    /\ ~display.mounted
    /\ display' = [display EXCEPT !.mounted = TRUE, !.status = "subscribing",
                                  !.present = <<>>]
    /\ ev' = Event(<<>>, <<>>)
    /\ UNCHANGED <<persistVars, ctlVars, toCtl, toDisp>>

\* The display page is closed: the cleanup unsubscribes the channel and
\* clears the heartbeat interval; the handshake timer stays pending.
DisplayUnmount ==
    /\ display.mounted
    /\ display' = [mounted |-> FALSE, status |-> "closed", present |-> <<>>,
                   live |-> 0, stale |-> display.stale + display.live]
    /\ ev' = Event(<<>>, <<>>)
    /\ UNCHANGED <<persistVars, ctlVars, toCtl, toDisp>>

\* Variant of DisplaySubscribed: request_sync is sent from the subscribe
\* callback itself, without the delay
DisplaySubscribed_SendsNow ==
    /\ display.mounted
    /\ display.status # "subscribed"
    /\ display' = [display EXCEPT !.status = "subscribed"]
    /\ toCtl' \in PutRequest(toCtl)
    /\ ev' = Event(<<RequestSyncMsg>>, <<>>)
    /\ UNCHANGED <<persistVars, ctlVars, toDisp>>

\* subscribe callback, status SUBSCRIBED: the request_sync is scheduled
\* (setTimeout 100)
DisplaySubscribed ==
    /\ display.mounted
    /\ display.status # "subscribed"
    /\ display.live + display.stale < MaxTimers
    /\ display' = [display EXCEPT !.status = "subscribed", !.live = @ + 1]
    /\ ev' = Event(<<>>, <<>>)
    /\ UNCHANGED <<persistVars, ctlVars, toCtl, toDisp>>

\* subscribe callback, another status (CHANNEL_ERROR, TIMED_OUT, CLOSED)
DisplayChannelDown ==
    /\ display.mounted
    /\ display.status = "subscribed"
    /\ display' = [display EXCEPT !.status = "down"]
    /\ ev' = Event(<<>>, <<>>)
    /\ UNCHANGED <<persistVars, ctlVars, toCtl, toDisp>>

\* The handshake timer fires: request_sync
DisplayHandshake ==
    /\ display.live > 0
    /\ display' = [display EXCEPT !.live = @ - 1]
    /\ toCtl' \in PutRequest(toCtl)
    /\ ev' = Event(<<RequestSyncMsg>>, <<>>)
    /\ UNCHANGED <<persistVars, ctlVars, toDisp>>

\* The handshake timer of a closed page fires: channel.send is called on
\* the unsubscribed channel, which may or may not transmit.
DisplayHandshakeLate ==
    /\ display.stale > 0
    /\ display' = [display EXCEPT !.stale = @ - 1]
    /\ toCtl' \in PutRequest(toCtl)
    /\ ev' = Event(<<RequestSyncMsg>>, <<>>)
    /\ UNCHANGED <<persistVars, ctlVars, toDisp>>

\* Variant of DisplayHeartbeat: the interval fires and never sends
DisplayHeartbeat_Silent ==
    /\ display.mounted
    /\ ev' = Beat(<<>>)
    /\ UNCHANGED <<persistVars, ctlVars, toCtl, toDisp, display>>

\* The 10 s interval fires: requestSync() if isConnected
DisplayHeartbeat ==
    /\ display.mounted
    /\ IF isConnected
       THEN /\ toCtl' \in PutRequest(toCtl)
            /\ ev' = Beat(<<RequestSyncMsg>>)
       ELSE /\ toCtl' = toCtl
            /\ ev' = Beat(<<>>)
    /\ UNCHANGED <<persistVars, ctlVars, toDisp, display>>

\* The display receives a message of the controller
DisplayReceive ==
    \E m \in toDisp :
        /\ isConnected
        /\ toDisp' = toDisp \ {m}
        /\ display' = [display EXCEPT !.present = Dispatch(@, m)]
        /\ ev' = Event(<<>>, <<m>>)
        /\ UNCHANGED <<persistVars, ctlVars, toCtl>>

\* Another display of the session broadcasts request_sync
PeerRequestSync ==
    /\ RequestSyncMsg \notin toDisp
    /\ Cardinality(toDisp) < MaxNet
    /\ toDisp' = toDisp \cup {RequestSyncMsg}
    /\ ev' = Event(<<>>, <<>>)
    /\ UNCHANGED <<persistVars, ctlVars, toCtl, display>>

(* The controller page and what it hands to the channel *)

NextBroadcast ==
    \/ CtlRender
    \/ CtlSelect
    \/ CtlAdd
    \/ CtlUpdate
    \/ CtlDelete
    \/ CtlClear
    \/ CtlLoad
    \/ CtlUndo
    \/ CtlRedo
    \/ CtlBringForward
    \/ CtlSendBackward
    \/ CtlBringToFront
    \/ CtlSendToBack
    \/ CtlSubscribed

SpecBroadcast == Init /\ [][NextBroadcast]_vars

(* The session: the controller's broadcasts, the handshake and the resync *)

NextSync ==
    \/ CtlSelect
    \/ CtlAdd
    \/ CtlUpdate
    \/ CtlDelete
    \/ CtlClear
    \/ CtlSubscribed
    \/ CtlRequestSync
    \/ CtlFullSync
    \/ CtlFullSyncLate
    \/ DisplayChannelDown
    \/ DisplaySubscribed
    \/ DisplayHandshake
    \/ DisplayHeartbeat
    \/ DisplayReceive
    \/ PeerRequestSync

SpecSync == Init /\ [][NextSync]_vars

(* The session over time: the display page is opened and closed and its     *)
(* channel goes down and comes back, while the controller adds and clears.  *)
(* The interval and the timers fire, the subscription of the controller     *)
(* completes, and the channel delivers: a message sent again and again is   *)
(* in flight at some time and is received at some time.                     *)

NextLive ==
    \/ CtlAdd
    \/ CtlClear
    \/ CtlSubscribed
    \/ CtlRequestSync
    \/ CtlFullSync
    \/ DisplayMount
    \/ DisplayUnmount
    \/ DisplaySubscribed
    \/ DisplayChannelDown
    \/ DisplayHandshake
    \/ DisplayHandshakeLate
    \/ DisplayHeartbeat
    \/ DisplayReceive

\* A heartbeat whose request_sync is in flight afterwards
HeartbeatInFlight == DisplayHeartbeat /\ toCtl' > 0

\* A delayed send whose full_sync is in flight afterwards
FullSyncInFlight == CtlFullSync /\ FullSyncMsg(currentShapesRef) \in toDisp'

\* The display receives a full_sync
DisplayReceiveFullSync ==
    DisplayReceive /\ \E m \in toDisp \ toDisp' : m.type = "full_sync"

Fairness ==
    /\ WF_vars(CtlSubscribed)
    /\ WF_vars(DisplayHeartbeat)
    /\ WF_vars(CtlFullSync)
    /\ WF_vars(DisplayReceive)
    /\ SF_vars(HeartbeatInFlight)
    /\ SF_vars(CtlRequestSync)
    /\ SF_vars(FullSyncInFlight)
    /\ SF_vars(DisplayReceiveFullSync)

SpecSyncFair == Init /\ [][NextLive]_vars /\ Fairness

----------------------------------------------------------------------------
(* The persistence gateway (usePersistence) on the controller page: the     *)
(* durable store, the autosave timeout and the local cache.  A call of the  *)
(* durable store is awaited: one step begins it, a later one handles its    *)
(* answer, and other callbacks run in between.  The state a step sets after *)
(* an await is rendered later (PRender); page.pending says that a render    *)
(* with new shapes or a new currentDrawingId is due, page.relist that one   *)
(* with a new list of drawings is due, page.drawings is the list the load   *)
(* dialog shows, page.cached is the outcome of the last write of the cache, *)
(* and page.loaded names the record whose load was the last change of the   *)
(* scene.  loadDrawings after a save or a delete is answered  *)
(* with the call it follows.  Here steps counts the user's actions; the     *)
(* broadcasts of the handlers are those of the sync engine above and are    *)
(* left out.                                                                *)

\* Bounds of the session
MaxUserSteps == 3
MaxPending == 2

\* The scene of the record the store holds when the session begins
StoredScene == <<Sh(2, 1)>>

\* Ids the canvas gives to new shapes: fresh, so in no stored scene
NewIds == Ids \ SceneIds(StoredScene)

\* A call awaiting its answer: update, insert, select (load) or delete, with
\* the arguments and, for delete, the currentDrawingId of its closure
\* (n tells calls with the same arguments apart)
Call(kind, id, shapes, name, cur) ==
    [kind |-> kind, id |-> id, shapes |-> shapes, name |-> name, cur |-> cur,
     n |-> CHOOSE n \in 1..MaxPending : \A c \in calls : c.n # n]

\* updated_at of a write: later than every row's
Now ==
    LET stamps == {db[r].at : r \in RecIds}
    IN  1 + (CHOOSE n \in stamps : \A m \in stamps : m <= n)

\* The records of the durable store
LiveRecs == {r \in RecIds : db[r].live}

\* Ids no row has ever had
FreshRecs == {r \in RecIds : db[r].at = 0}

\* The state of the history store and of its closures
hookVars == <<history, selectedId, skipHistoryRef, rendered, keydown>>

\* What the gateway leaves alone
otherVars == <<op, syncVars, fallback>>

\* saveToLocalStorage(shapes) without the setItem
CacheWrites_Never(shapes, written) ==
    /\ cache' = cache
    /\ pev' = Did("render", NoDrawing, FALSE, TRUE)

\* saveToLocalStorage(shapes): setItem may throw (quota), which is caught
CacheWrites(shapes, written) ==
    /\ cache' = IF written THEN Ser(shapes) ELSE cache
    /\ pev' = Did("render", NoDrawing, FALSE, TRUE)

\* The outcome of a write of the cache
Outcome(written) == IF written THEN "written" ELSE "failed"

\* scheduleAutosave that leaves a pending timeout in place
scheduleAutosave_KeepsPending(shapes, id) ==
    autosaveTimerRef' = IF autosaveTimerRef.armed
                        THEN autosaveTimerRef
                        ELSE [armed |-> TRUE, shapes |-> shapes, id |-> id]

\* scheduleAutosave(shapes): the pending timeout is cleared and a new one is
\* set, closing over shapes and the render's currentDrawingId
scheduleAutosave(shapes, id) ==
    autosaveTimerRef' = [armed |-> TRUE, shapes |-> shapes, id |-> id]

\* The page renders the state as it is after the step, and the effect on
\* [shapes, saveToLocalStorage, scheduleAutosave] runs
PRenders(id, loaded) ==
    /\ Renders([present |-> history'.present, selectedId |-> selectedId'])
    /\ \E written \in BOOLEAN :
          /\ CacheWrites(history'.present, written)
          /\ page' = [page EXCEPT !.pending = FALSE, !.relist = FALSE,
                                  !.currentDrawingId = id, !.loaded = loaded,
                                  !.drawings = LiveRecs,
                                  !.cached = Outcome(written)]
    /\ scheduleAutosave(history'.present, id)

\* The page renders a new list of drawings only: no dependency of the
\* effect has changed
PRelists ==
    /\ page' = [page EXCEPT !.relist = FALSE, !.drawings = LiveRecs]
    /\ pev' = Did("render", NoDrawing, FALSE, TRUE)
    /\ UNCHANGED <<rendered, keydown, cache, autosaveTimerRef>>

\* A mutation made in a user-input handler
PEdit(A) ==
    /\ page.mounted
    /\ steps < MaxUserSteps
    /\ steps' = steps + 1
    /\ A
    /\ PRenders(currentDrawingId, NoDrawing)
    /\ UNCHANGED <<db, currentDrawingId, lastSavedRef, error, calls, otherVars>>

\* Mount: the effects of the first render run in order: the cache is read
\* and a non-empty scene is set without history; then the rendered (empty)
\* shapes are written to the cache and the autosave is scheduled.
PMount ==
    /\ ~page.mounted
    /\ ~page.closed
    /\ IF cache # NoEntry /\ Len(cache[1]) > 0
       THEN setShapes(cache[1], FALSE)
       ELSE UNCHANGED <<history, selectedId, skipHistoryRef>>
    /\ \E written \in BOOLEAN :
          /\ CacheWrites(rendered.present, written)
          /\ page' = [page EXCEPT
                         !.mounted = TRUE,
                         !.pending = history'.present # rendered.present,
                         !.relist = LiveRecs # {},
                         !.cached = Outcome(written)]
    /\ scheduleAutosave(rendered.present, page.currentDrawingId)
    /\ UNCHANGED <<rendered, keydown, steps, db, currentDrawingId,
                   lastSavedRef, error, calls, otherVars>>

\* A state update made after an await or by a channel message is rendered
PRender ==
    /\ page.mounted
    /\ page.pending \/ page.relist
    /\ UNCHANGED <<history, selectedId, skipHistoryRef, steps, db,
                   currentDrawingId, lastSavedRef, error, calls, otherVars>>
    /\ IF page.pending
       THEN PRenders(currentDrawingId, page.loaded)
       ELSE PRelists

\* handleShapeAdd
PAdd ==
    \E id \in NewIds \ UsedIds :
        /\ Fits(rendered.present)
        /\ PEdit(addShape(Sh(id, 0), rendered))

\* handleUndo with something to undo
PUndo ==
    /\ history.past # <<>>
    /\ PEdit(undo)

\* A clear received from the channel: syncClear, rendered later
PSyncClear ==
    /\ page.mounted
    /\ history.present # <<>>
    /\ steps < MaxUserSteps
    /\ steps' = steps + 1
    /\ syncClear
    /\ page' = [page EXCEPT !.pending = TRUE, !.loaded = NoDrawing]
    /\ pev' = Did("sync", NoDrawing, FALSE, TRUE)
    /\ UNCHANGED <<rendered, keydown, db, cache, currentDrawingId,
                   lastSavedRef, error, autosaveTimerRef, calls, otherVars>>

\* handleNew (confirmed): createNewDrawing, clearAll
PNew ==
    /\ page.mounted
    /\ steps < MaxUserSteps
    /\ steps' = steps + 1
    /\ currentDrawingId' = NoDrawing
    /\ lastSavedRef' = EmptyString
    /\ clearAll
    /\ PRenders(NoDrawing, NoDrawing)
    /\ UNCHANGED <<db, error, calls, otherVars>>

\* saveDrawing without the comparison with lastSavedRef.current
saveDrawing_NoSkip(shapes, name, id) ==
    /\ Cardinality(calls) < MaxPending
    /\ calls' = calls \cup
           {Call(IF id # NoDrawing THEN "update" ELSE "insert",
                 id, shapes, name, NoDrawing)}
    /\ pev' = Did("begin", id, FALSE, FALSE)

\* saveDrawing that inserts whether or not an id is given
saveDrawing_AlwaysInserts(shapes, name, id) ==
    IF id # NoDrawing /\ Ser(shapes) = lastSavedRef
    THEN /\ pev' = Did("skip", id, FALSE, TRUE)
         /\ UNCHANGED calls
    ELSE /\ Cardinality(calls) < MaxPending
         /\ calls' = calls \cup {Call("insert", id, shapes, name, NoDrawing)}
         /\ pev' = Did("begin", id, FALSE, FALSE)

\* saveDrawing(shapes, name, id) up to its await: nothing is sent when id is
\* given and the serialized scene equals lastSavedRef.current
saveDrawing(shapes, name, id) ==
    IF id # NoDrawing /\ Ser(shapes) = lastSavedRef
    THEN /\ pev' = Did("skip", id, FALSE, TRUE)
         /\ UNCHANGED calls
    ELSE /\ Cardinality(calls) < MaxPending
         /\ calls' = calls \cup
                {Call(IF id # NoDrawing THEN "update" ELSE "insert",
                      id, shapes, name, NoDrawing)}
         /\ pev' = Did("begin", id, FALSE, FALSE)

\* handleSave(name) from the save dialog, up to the await in saveDrawing
handleSave(name) ==
    /\ page.mounted
    /\ steps < MaxUserSteps
    /\ steps' = steps + 1
    /\ saveDrawing(rendered.present, name, page.currentDrawingId)
    /\ UNCHANGED <<hookVars, db, cache, currentDrawingId, lastSavedRef,
                   error, page, autosaveTimerRef, otherVars>>

PSave == \E name \in Names : handleSave(name)

\* The autosave timeout fires: saveDrawing(shapes, undefined, id) if its
\* closure has a currentDrawingId
PAutosave ==
    /\ autosaveTimerRef.armed
    /\ autosaveTimerRef' = [autosaveTimerRef EXCEPT !.armed = FALSE]
    /\ IF autosaveTimerRef.id # NoDrawing
       THEN saveDrawing(autosaveTimerRef.shapes, NoName, autosaveTimerRef.id)
       ELSE /\ pev' = Did("idle", NoDrawing, FALSE, TRUE)
            /\ UNCHANGED calls
    /\ UNCHANGED <<hookVars, steps, db, cache, currentDrawingId, lastSavedRef,
                   error, page, otherVars>>

\* The answer to an update where the baseline is set whatever the answer
PUpdateAnswer_BaselineFirst ==
    \E c \in calls, ok \in BOOLEAN :
        /\ c.kind = "update"
        /\ calls' = calls \ {c}
        /\ lastSavedRef' = Ser(c.shapes)
        /\ IF ok
           THEN /\ db' = IF db[c.id].live
                         THEN [db EXCEPT ![c.id] =
                                 [@ EXCEPT !.data = c.shapes, !.at = Now,
                                           !.name = IF c.name # NoName
                                                    THEN c.name ELSE @]]
                         ELSE db
                /\ page' = [page EXCEPT !.relist = TRUE]
                /\ pev' = Did("update", c.id, db[c.id].live, TRUE)
                /\ UNCHANGED error
           ELSE /\ error' = "save"
                /\ pev' = Did("update", c.id, FALSE, FALSE)
                /\ UNCHANGED <<db, page>>
        /\ UNCHANGED <<hookVars, steps, cache, currentDrawingId,
                       autosaveTimerRef, otherVars>>

\* The answer to an update: on success the row, if there is one, has the
\* new canvas_data, updated_at and (if given) name, and the baseline is set
PUpdateAnswer ==
    \E c \in calls, ok \in BOOLEAN :
        /\ c.kind = "update"
        /\ calls' = calls \ {c}
        /\ IF ok
           THEN /\ db' = IF db[c.id].live
                         THEN [db EXCEPT ![c.id] =
                                 [@ EXCEPT !.data = c.shapes, !.at = Now,
                                           !.name = IF c.name # NoName
                                                    THEN c.name ELSE @]]
                         ELSE db
                /\ lastSavedRef' = Ser(c.shapes)
                /\ page' = [page EXCEPT !.relist = TRUE]
                /\ pev' = Did("update", c.id, db[c.id].live, TRUE)
                /\ UNCHANGED error
           ELSE /\ error' = "save"
                /\ pev' = Did("update", c.id, FALSE, FALSE)
                /\ UNCHANGED <<db, lastSavedRef, page>>
        /\ UNCHANGED <<hookVars, steps, cache, currentDrawingId,
                       autosaveTimerRef, otherVars>>

\* The answer to an insert: on success there is a new row; its id becomes
\* currentDrawingId and the baseline is set
PInsertAnswer ==
    \E c \in calls, ok \in BOOLEAN :
        /\ c.kind = "insert"
        /\ ok => FreshRecs # {}
        /\ calls' = calls \ {c}
        /\ IF ok
           THEN LET new == CHOOSE r \in FreshRecs : \A q \in FreshRecs : r <= q IN
                /\ db' = [db EXCEPT ![new] =
                            [live |-> TRUE,
                             name |-> IF c.name # NoName THEN c.name
                                      ELSE DefaultName,
                             data |-> c.shapes, at |-> Now]]
                /\ currentDrawingId' = new
                /\ lastSavedRef' = Ser(c.shapes)
                /\ page' = [page EXCEPT !.pending = TRUE, !.relist = TRUE]
                /\ pev' = Did("insert", new, TRUE, TRUE)
                /\ UNCHANGED error
           ELSE /\ error' = "save"
                /\ pev' = Did("insert", NoDrawing, FALSE, FALSE)
                /\ UNCHANGED <<db, currentDrawingId, lastSavedRef, page>>
        /\ UNCHANGED <<hookVars, steps, cache, autosaveTimerRef, otherVars>>

\* handleLoad(id) up to the await in loadDrawing
PLoad ==
    \E id \in page.drawings :
        /\ page.mounted
        /\ steps < MaxUserSteps
        /\ Cardinality(calls) < MaxPending
        /\ steps' = steps + 1
        /\ calls' = calls \cup {Call("select", id, <<>>, NoName, NoDrawing)}
        /\ pev' = Did("begin", id, FALSE, FALSE)
        /\ UNCHANGED <<hookVars, db, cache, currentDrawingId, lastSavedRef,
                       error, page, autosaveTimerRef, otherVars>>

\* The answer to the select of loadDrawing, and handleLoad after it: on
\* success the id and the baseline are set and setShapes(loaded, false) is
\* called; .single() gives an error when there is no such row
PLoadAnswer ==
    \E c \in calls, ok \in BOOLEAN :
        /\ c.kind = "select"
        /\ ok => db[c.id].live
        /\ calls' = calls \ {c}
        /\ IF ok
           THEN /\ currentDrawingId' = c.id
                /\ lastSavedRef' = Ser(db[c.id].data)
                /\ setShapes(db[c.id].data, FALSE)
                /\ page' = [page EXCEPT !.pending = TRUE, !.loaded = c.id]
                /\ pev' = Did("load", c.id, FALSE, TRUE)
                /\ UNCHANGED error
           ELSE /\ error' = "load"
                /\ pev' = Did("load", c.id, FALSE, FALSE)
                /\ UNCHANGED <<history, selectedId, skipHistoryRef,
                               currentDrawingId, lastSavedRef, page>>
        /\ UNCHANGED <<rendered, keydown, steps, db, cache, autosaveTimerRef,
                       otherVars>>

\* deleteDrawing(id) from the load dialog, up to its await
PDelete ==
    \E id \in page.drawings :
        /\ page.mounted
        /\ steps < MaxUserSteps
        /\ Cardinality(calls) < MaxPending
        /\ steps' = steps + 1
        /\ calls' = calls \cup
               {Call("delete", id, <<>>, NoName, page.currentDrawingId)}
        /\ pev' = Did("begin", id, FALSE, FALSE)
        /\ UNCHANGED <<hookVars, db, cache, currentDrawingId, lastSavedRef,
                       error, page, autosaveTimerRef, otherVars>>

\* The answer to a delete: on success the row is gone, and the id and the
\* baseline are cleared if the currentDrawingId of the closure is the id
PDeleteAnswer ==
    \E c \in calls, ok \in BOOLEAN :
        /\ c.kind = "delete"
        /\ calls' = calls \ {c}
        /\ IF ok
           THEN /\ db' = [db EXCEPT ![c.id] =
                            [NoRecord EXCEPT !.at = db[c.id].at]]
                /\ IF c.cur = c.id
                   THEN /\ currentDrawingId' = NoDrawing
                        /\ lastSavedRef' = EmptyString
                        /\ page' = [page EXCEPT
                              !.pending = @ \/ currentDrawingId # NoDrawing,
                              !.relist = TRUE]
                   ELSE /\ page' = [page EXCEPT !.relist = TRUE]
                        /\ UNCHANGED <<currentDrawingId, lastSavedRef>>
                /\ pev' = Did("delete", c.id, db[c.id].live, TRUE)
                /\ UNCHANGED error
           ELSE /\ error' = "delete"
                /\ pev' = Did("delete", c.id, FALSE, FALSE)
                /\ UNCHANGED <<db, currentDrawingId, lastSavedRef, page>>
        /\ UNCHANGED <<hookVars, steps, cache, autosaveTimerRef, otherVars>>

\* The session begins with the page constructed and not yet mounted; the
\* store holds one drawing or none, the cache a scene or nothing
InitPersist ==
    /\ history = [past |-> <<>>, present |-> <<>>, future |-> <<>>]
    /\ selectedId = NoId
    /\ skipHistoryRef = FALSE
    /\ rendered = [present |-> <<>>, selectedId |-> NoId]
    /\ keydown = <<>>
    /\ op = [tick |-> 0, kind |-> "init", arg |-> NoId,
             afterLoad |-> FALSE, redoable |-> FALSE,
             repeat |-> FALSE,
             chain |-> 0, S |-> <<>>, X |-> NoShape]
    /\ steps = 0
    /\ pendingUndoRedoRef = FALSE
    /\ cChan = "subscribing"
    /\ cTimers = [live |-> 0, stale |-> 0, seen |-> <<>>]
    /\ toCtl = 0
    /\ toDisp = {}
    /\ display = [mounted |-> TRUE, status |-> "subscribing",
                  present |-> <<>>, live |-> 0, stale |-> 0]
    /\ ev = [sent |-> <<>>, got |-> <<>>, beat |-> FALSE]
    /\ db \in {[r \in RecIds |-> NoRecord],
               [r \in RecIds |->
                   IF r = 1
                   THEN [live |-> TRUE, name |-> "a",
                         data |-> StoredScene, at |-> 1]
                   ELSE NoRecord]}
    /\ cache \in {NoEntry, Ser(StoredScene)}
    /\ currentDrawingId = NoDrawing
    /\ lastSavedRef = EmptyString
    /\ error = "none"
    /\ page = [mounted |-> FALSE, pending |-> FALSE, relist |-> FALSE,
               currentDrawingId |-> NoDrawing, loaded |-> NoDrawing,
               drawings |-> {}, cached |-> "no",
               closed |-> FALSE]
    /\ autosaveTimerRef = NoTimer
    /\ calls = {}
    /\ pev = NoPev
    /\ fallback = NoFallback

NextPersist ==
    \/ PMount
    \/ PRender
    \/ PAdd
    \/ PUndo
    \/ PSyncClear
    \/ PNew
    \/ PSave
    \/ PAutosave
    \/ PUpdateAnswer
    \/ PInsertAnswer
    \/ PLoad
    \/ PLoadAnswer
    \/ PDelete
    \/ PDeleteAnswer

SpecPersist == InitPersist /\ [][NextPersist]_vars

\* The page is closed: the cleanup of usePersistence clears the autosave
\* timeout.  Calls in flight are not cancelled; their answers still run and
\* nothing is rendered after them.
PUnmount ==
    /\ page.mounted
    /\ page' = [page EXCEPT !.mounted = FALSE, !.closed = TRUE]
    /\ autosaveTimerRef' = [autosaveTimerRef EXCEPT !.armed = FALSE]
    /\ pev' = Did("unmount", NoDrawing, FALSE, TRUE)
    /\ UNCHANGED <<hookVars, steps, db, cache, currentDrawingId,
                   lastSavedRef, error, calls, otherVars>>

NextTeardown ==
    \/ NextPersist
    \/ PUnmount

SpecTeardown == InitPersist /\ [][NextTeardown]_vars

----------------------------------------------------------------------------
(* The display page's fallback (DisplayPageContent): while the channel is   *)
(* not subscribed a 2 s timeout is pending, whose callback loads the latest *)
(* drawing of the durable store or else the local cache.  The effect that   *)
(* arms and clears the timeout runs again when isConnected, drawings or     *)
(* fallbackLoaded change.  Here currentDrawingId, lastSavedRef and error    *)
(* are those of the display's usePersistence; the store does not change     *)
(* while the display is open.                                               *)

\* Bounds: the loadDrawing calls awaited at once, and the status changes of
\* the display's channel
MaxLoads == 2
MaxFlips == 3

\* The scene of the controller while the display is open
LiveScene == <<Sh(1, 1)>>

\* The scenes of the store and of the cache when the display is opened
OlderScene == <<Sh(1, 0)>>

CachedScene == <<Sh(2, 0)>>

\* loadFromLocalStorage: JSON.parse of the item, or null
Parse(entry) == entry[1]

loadFromLocalStorage == IF cache = NoEntry THEN Null ELSE Some(Parse(cache))

\* select('*').order('updated_at', { ascending: false }): the ids of the
\* rows, latest first
RECURSIVE Ordered(_)
Ordered(S) ==
    IF S = {} THEN <<>>
    ELSE LET r == CHOOSE r \in S : \A q \in S : db[q].at <= db[r].at
         IN  <<r>> \o Ordered(S \ {r})

\* displayShapes, variant: the fallback shapes are shown until the scene of
\* the channel is not empty
displayShapes_FallbackFirst ==
    IF isConnected /\ display.present # <<>> THEN display.present
    ELSE IF fallback.fallbackShapes = Null THEN <<>>
    ELSE fallback.fallbackShapes[1]

\* displayShapes = isConnected ? shapes : (fallbackShapes || [])
displayShapes ==
    IF isConnected THEN display.present
    ELSE IF fallback.fallbackShapes = Null THEN <<>>
    ELSE fallback.fallbackShapes[1]

\* What the fallback leaves alone
fbRest == <<db, cache, page, autosaveTimerRef, calls, pev, ctlVars, toCtl,
            toDisp>>

\* The effect without its cleanup: a pending timeout stays armed when the
\* channel is subscribed
FallbackEffect_NoCleanup(fb, conn) ==
    IF conn
    THEN [fb EXCEPT !.isReady = TRUE]
    ELSE [fb EXCEPT !.timer = [armed |-> TRUE,
                               fallbackLoaded |-> fb.fallbackLoaded,
                               drawings |-> fb.drawings]]

\* The effect on [isConnected, drawings, loadDrawing, loadFromLocalStorage,
\* fallbackLoaded] of a render with these values: the cleanup of the last
\* run clears its timeout; connected, the page is ready; otherwise a
\* timeout is armed whose callback closes over the values
FallbackEffect(fb, conn) ==
    IF conn
    THEN [fb EXCEPT !.isReady = TRUE, !.timer.armed = FALSE]
    ELSE [fb EXCEPT !.timer = [armed |-> TRUE,
                               fallbackLoaded |-> fb.fallbackLoaded,
                               drawings |-> fb.drawings]]

\* subscribe callback, status SUBSCRIBED: setIsConnected(true), the
\* request_sync is scheduled, and the effect runs
FbSubscribed ==
    /\ display.mounted
    /\ display.status # "subscribed"
    /\ display.live + display.stale < MaxTimers
    /\ fallback.flips < MaxFlips
    /\ display' = [display EXCEPT !.status = "subscribed", !.live = @ + 1]
    /\ fallback' = FallbackEffect(
           [fallback EXCEPT !.did = "subscribed",
                            !.flips = @ + 1,
                            !.won = @ \/ (~fallback.fallbackLoaded
                                          /\ fallback.loading = 0)],
           TRUE)
    /\ ev' = Event(<<>>, <<>>)
    /\ UNCHANGED <<fbRest, currentDrawingId, lastSavedRef, error>>

\* subscribe callback, another status: setIsConnected(false), and the
\* effect runs
FbChannelDown ==
    /\ display.mounted
    /\ display.status = "subscribed"
    /\ fallback.flips < MaxFlips
    /\ display' = [display EXCEPT !.status = "down"]
    /\ fallback' = FallbackEffect(
           [fallback EXCEPT !.did = "down", !.flips = @ + 1], FALSE)
    /\ ev' = Event(<<>>, <<>>)
    /\ UNCHANGED <<fbRest, currentDrawingId, lastSavedRef, error>>

\* The answer to the loadDrawings of the mount: setDrawings(data || []),
\* and the effect runs; a failure sets the error
FbDrawingsLoaded ==
    \E ok \in BOOLEAN :
        /\ display.mounted
        /\ ~fallback.listed
        /\ IF ok
           THEN /\ fallback' = FallbackEffect(
                       [fallback EXCEPT !.listed = TRUE,
                                        !.drawings = Ordered(LiveRecs),
                                        !.did = "listed"],
                       isConnected)
                /\ UNCHANGED error
           ELSE /\ fallback' = [fallback EXCEPT !.listed = TRUE,
                                                !.did = "listed"]
                /\ error' = "list"
        /\ ev' = Event(<<>>, <<>>)
        /\ UNCHANGED <<fbRest, display, currentDrawingId, lastSavedRef>>

\* The timeout's callback without its setIsReady(true)
FbTimeout_NotReady ==
    /\ fallback.timer.armed
    /\ IF fallback.timer.fallbackLoaded
       THEN fallback' = [fallback EXCEPT !.timer.armed = FALSE,
                                         !.did = "idle"]
       ELSE IF fallback.timer.drawings # <<>>
       THEN /\ fallback.loading < MaxLoads
            /\ fallback' = [fallback EXCEPT !.timer.armed = FALSE,
                                            !.loading = @ + 1,
                                            !.did = "store"]
       ELSE fallback' = FallbackEffect(
                [fallback EXCEPT !.timer.armed = FALSE,
                                 !.fallbackShapes = loadFromLocalStorage,
                                 !.fallbackLoaded = TRUE,
                                 !.did = "cache"],
                isConnected)
    /\ ev' = Event(<<>>, <<>>)
    /\ UNCHANGED <<fbRest, display, currentDrawingId, lastSavedRef, error>>

\* The 2 s timeout fires.  Its closure has isConnected false; with
\* fallbackLoaded false it awaits loadDrawing(drawings[0].id) if the list
\* is not empty, and otherwise reads the cache, sets fallbackShapes,
\* fallbackLoaded and isReady, after which the effect runs
FbTimeout ==
    /\ fallback.timer.armed
    /\ IF fallback.timer.fallbackLoaded
       THEN fallback' = [fallback EXCEPT !.timer.armed = FALSE,
                                         !.did = "idle"]
       ELSE IF fallback.timer.drawings # <<>>
       THEN /\ fallback.loading < MaxLoads
            /\ fallback' = [fallback EXCEPT !.timer.armed = FALSE,
                                            !.loading = @ + 1,
                                            !.did = "store"]
       ELSE fallback' = FallbackEffect(
                [fallback EXCEPT !.timer.armed = FALSE,
                                 !.fallbackShapes = loadFromLocalStorage,
                                 !.fallbackLoaded = TRUE,
                                 !.isReady = TRUE,
                                 !.did = "cache"],
                isConnected)
    /\ ev' = Event(<<>>, <<>>)
    /\ UNCHANGED <<fbRest, display, currentDrawingId, lastSavedRef, error>>

\* The answer to the loadDrawing of the timeout's callback, and the callback
\* after it: setFallbackShapes(loaded || null), setFallbackLoaded(true),
\* setIsReady(true); the effect runs if fallbackLoaded has changed
FbLoaded ==
    \E ok \in BOOLEAN :
        LET id == Head(fallback.drawings)
            fb == [fallback EXCEPT
                      !.loading = @ - 1,
                      !.fallbackShapes = IF ok THEN Some(db[id].data)
                                         ELSE Null,
                      !.fallbackLoaded = TRUE,
                      !.isReady = TRUE,
                      !.did = IF ok THEN "loaded" ELSE "failed"]
        IN  /\ fallback.loading > 0
            /\ ok => db[id].live
            /\ fallback' = IF fallback.fallbackLoaded THEN fb
                           ELSE FallbackEffect(fb, isConnected)
            /\ IF ok
               THEN /\ currentDrawingId' = id
                    /\ lastSavedRef' = Ser(db[id].data)
                    /\ UNCHANGED error
               ELSE /\ error' = "load"
                    /\ UNCHANGED <<currentDrawingId, lastSavedRef>>
            /\ ev' = Event(<<>>, <<>>)
            /\ UNCHANGED <<fbRest, display>>

\* The display has been opened: the channel is subscribing, loadDrawings is
\* awaited, the timeout of the first render is armed; the store holds no,
\* one or two drawings, the cache a scene or nothing; the controller is
\* subscribed and has a scene
InitFallback ==
    /\ history = [past |-> <<>>, present |-> LiveScene, future |-> <<>>]
    /\ selectedId = NoId
    /\ skipHistoryRef = FALSE
    /\ rendered = [present |-> LiveScene, selectedId |-> NoId]
    /\ keydown = <<>>
    /\ op = [tick |-> 0, kind |-> "init", arg |-> NoId,
             afterLoad |-> FALSE, redoable |-> FALSE,
             repeat |-> FALSE,
             chain |-> 0, S |-> <<>>, X |-> NoShape]
    /\ steps = 0
    /\ pendingUndoRedoRef = FALSE
    /\ cChan = "subscribed"
    /\ cTimers = [live |-> 0, stale |-> 0, seen |-> <<>>]
    /\ toCtl = 0
    /\ toDisp = {}
    /\ display = [mounted |-> TRUE, status |-> "subscribing",
                  present |-> <<>>, live |-> 0, stale |-> 0]
    /\ ev = [sent |-> <<>>, got |-> <<>>, beat |-> FALSE]
    /\ \E n \in 0..MaxRecs :
          db = [r \in RecIds |->
                  IF r > n THEN NoRecord
                  ELSE [live |-> TRUE, name |-> "a",
                        data |-> IF r = 1 THEN OlderScene ELSE StoredScene,
                        at |-> r]]
    /\ cache \in {NoEntry, Ser(CachedScene)}
    /\ currentDrawingId = NoDrawing
    /\ lastSavedRef = EmptyString
    /\ error = "none"
    /\ page = [mounted |-> TRUE, pending |-> FALSE, relist |-> FALSE,
               currentDrawingId |-> NoDrawing, loaded |-> NoDrawing,
               drawings |-> {}, cached |-> "no",
               closed |-> FALSE]
    /\ autosaveTimerRef = NoTimer
    /\ calls = {}
    /\ pev = NoPev
    /\ fallback = FallbackEffect(NoFallback, FALSE)

NextFallback ==
    \/ FbSubscribed
    \/ FbChannelDown
    \/ FbDrawingsLoaded
    \/ FbTimeout
    \/ FbLoaded
    \/ DisplayHandshake
    \/ DisplayReceive
    \/ CtlRequestSync
    \/ CtlFullSync

SpecFallback == InitFallback /\ [][NextFallback]_vars

\* A timeout that is armed fires after 2 s unless the effect clears it, and
\* an awaited loadDrawing is answered
FallbackFairness ==
    /\ WF_vars(FbTimeout)
    /\ WF_vars(FbLoaded)

SpecFallbackFair == SpecFallback /\ FallbackFairness

----------------------------------------------------------------------------
(* Properties of the history store *)

\* This step is a call of kind k / of a kind in K (Render and Select leave op).
Called(k) == op'.tick # op.tick /\ op'.kind = k
CalledIn(K) == op'.tick # op.tick /\ op'.kind \in K

MutatorKinds ==
    {"add", "update", "delete", "deleteKey", "clearAll", "setScene"}
ReorderKinds == {"forward", "backward", "front", "back"}
SyncKinds == {"syncAdd", "syncUpdate", "syncDelete", "syncClear", "syncFullSync"}

Min(a, b) == IF a <= b THEN a ELSE b

\* The last n entries of s
KeepLast(s, n) ==
    [i \in 1..Min(Len(s), n) |-> s[Len(s) - Min(Len(s), n) + i]]

\* history' is the commit of scene new over history
Commits(new) ==
    /\ history'.past = KeepLast(history.past \o <<history.present>>, MAX_HISTORY)
    /\ history'.present = new
    /\ history'.future = <<>>

\* Positions of id in scene
Pos(scene, id) == {i \in 1..Len(scene) : scene[i].id = id}

\* The reorder of kind k made by the callbacks as rendered does not return
\* early: a shape is selected, it is in the scene, and it is not already
\* last (forward) or first (backward).
Effective(k) ==
    LET P == Pos(rendered.present, rendered.selectedId) IN
    /\ rendered.selectedId # NoId
    /\ P # {}
    /\ k = "forward" => \E j \in P : j < Len(rendered.present)
    /\ k = "backward" => 1 \notin P

\* C1: every controller mutator (add, update, delete, clearAll, a reorder
\* that does not return early, setScene with recordHistory = true) commits:
\* past' is the last MAX_HISTORY entries of past ++ [present], present' is
\* the scene the mutator computed from the present its callback holds, and
\* future' is empty.
C1_MutatorsCommit ==
    [][ LET cur == rendered.present
            a   == op'.arg
        IN /\ Called("add") => Commits(cur \o <<a>>)
           /\ Called("update") =>
                 Commits([i \in 1..Len(cur) |->
                             IF cur[i].id = a.id THEN a ELSE cur[i]])
           /\ Called("delete") =>
                 Commits(SelectSeq(cur, LAMBDA s : s.id # a))
           /\ Called("deleteKey") =>
                 Commits(SelectSeq(keydown, LAMBDA s : s.id # a))
           /\ Called("clearAll") => Commits(<<>>)
           /\ Called("setScene") => Commits(a)
           /\ (CalledIn(ReorderKinds) /\ Effective(op'.kind)) =>
                 Commits(history'.present)
      ]_vars

C1_Witness ==
    /\ op.kind \in ReorderKinds
    /\ Len(history.past) >= 2
    /\ history.present # history.past[Len(history.past)]

\* C2: add(shape) from present = S followed by undo() makes present S again,
\* and a following redo() makes present S with shape appended at the end.
C2_AddUndoRedo ==
    /\ op.chain = 2 => history.present = op.S
    /\ op.chain = 3 => history.present = op.S \o <<op.X>>

\* C3: past never holds more than MAX_HISTORY scenes; after n mutations made
\* one after another from an empty history it holds the min(n, MAX_HISTORY)
\* most recent previous presents, oldest first (after 60: exactly 50, the
\* oldest 10 discarded).
C3_PastBounded ==
    /\ Len(history.past) <= MAX_HISTORY
    /\ history.future = <<>> =>
          /\ Len(history.past) = Min(steps, MAX_HISTORY)
          /\ \A i \in 1..Len(history.past) :
                history.past[i] = SceneAt(steps - Len(history.past) + i - 1)

C3_Witness ==
    /\ steps >= MAX_HISTORY + 10
    /\ history.future = <<>>
    /\ Len(history.past) = MAX_HISTORY
    /\ history.past[1] = SceneAt(steps - MAX_HISTORY)

\* C4: undo with empty past and redo with empty future change nothing;
\* otherwise undo moves the last past entry into present and prepends the
\* old present to future, and redo moves the first future entry into present
\* and appends the old present to past.  So once all of past has been
\* undone after n mutations, present is the MAX_HISTORY-th oldest recorded
\* present (the first one when n < MAX_HISTORY), and one more undo changes
\* nothing.
C4_UndoRedo ==
    /\ [][ /\ Called("undo") =>
                IF Len(history.past) = 0
                THEN history' = history
                ELSE /\ history'.present = history.past[Len(history.past)]
                     /\ history'.past \o <<history'.present>> = history.past
                     /\ history'.future = <<history.present>> \o history.future
           /\ Called("redo") =>
                IF Len(history.future) = 0
                THEN history' = history
                ELSE /\ history'.present = history.future[1]
                     /\ <<history'.present>> \o history'.future = history.future
                     /\ history'.past = history.past \o <<history.present>>
         ]_vars
    /\ [](history.past = <<>> =>
            history.present = SceneAt(IF steps > MAX_HISTORY
                                      THEN steps - MAX_HISTORY ELSE 0))

C4_Witness ==
    /\ op.kind = "undo"
    /\ steps >= MAX_HISTORY + 10
    /\ history.past = <<>>
    /\ Len(history.future) = MAX_HISTORY

\* C5 as claimed: every mutation (add, update, delete, clearAll, reorder,
\* setScene with recordHistory = true) leaves future empty, and only undo,
\* redo and setScene(scene, false) may leave future non-empty.
C5_AnyMutationClearsFuture ==
    [][ /\ CalledIn(MutatorKinds \cup ReorderKinds) => history'.future = <<>>
        /\ (op'.tick # op.tick /\ history'.future # <<>>) =>
              op'.kind \in {"undo", "redo", "setSceneNoHistory"}
      ]_vars

\* C5 as amended: every mutation that commits (add, update, delete, clearAll,
\* setScene with recordHistory = true, and a reorder that does not return
\* early) leaves future empty, so canRedo is false afterwards; the calls that
\* may leave future non-empty are undo, redo, setScene(scene, false), a
\* reorder that returns early, and the sync entry points.
C5_CommitClearsFuture ==
    [][ /\ (\/ CalledIn(MutatorKinds)
            \/ CalledIn(ReorderKinds) /\ Effective(op'.kind)) =>
              history'.future = <<>> /\ ~canRedo'
        /\ (op'.tick # op.tick /\ history'.future # <<>>) =>
              \/ op'.kind \in {"undo", "redo", "setSceneNoHistory"} \cup SyncKinds
              \/ op'.kind \in ReorderKinds /\ ~Effective(op'.kind)
      ]_vars

C5_Witness ==
    /\ op.kind \in MutatorKinds \cup ReorderKinds
    /\ op.redoable
    /\ history.future = <<>>

\* C6: the sync entry points leave past and future unchanged, so canUndo and
\* canRedo are the same before and after each of them.
C6_SyncKeepsHistory ==
    [][ CalledIn(SyncKinds) =>
          /\ history'.past = history.past
          /\ history'.future = history.future
          /\ canUndo' = canUndo
          /\ canRedo' = canRedo
      ]_vars

C6_Witness ==
    /\ op.kind \in SyncKinds
    /\ history.past # <<>>
    /\ history.future # <<>>
    /\ history.present # history.future[1]

\* C7: setScene(scene, false) sets present to scene and leaves past and
\* future unchanged, and the suppression covers that call only: the next
\* mutator pushes the loaded scene onto past and clears future.
C7_LoadKeepsHistory ==
    [][ /\ Called("setSceneNoHistory") =>
              /\ history'.present = op'.arg
              /\ history'.past = history.past
              /\ history'.future = history.future
        /\ (op.kind = "setSceneNoHistory" /\ CalledIn(MutatorKinds)) =>
              /\ history'.past =
                    KeepLast(history.past \o <<op.arg>>, MAX_HISTORY)
              /\ history'.future = <<>>
      ]_vars

C7_Witness ==
    /\ op.afterLoad
    /\ op.redoable
    /\ op.kind \in MutatorKinds
    /\ history.past # <<>>
    /\ history.future = <<>>

\* C8: after a sync-received add of shape X on a client whose past is not
\* empty, a local undo() leaves X in present.
C8_RemoteAddSurvivesUndo ==
    [][ (op.kind = "syncAdd" /\ Len(history.past) > 0 /\ Called("undo")) =>
          \E i \in 1..Len(history'.present) : history'.present[i] = op.arg
      ]_vars

\* C9: delete(id), update(shape), syncDelete(id) and syncUpdate(shape) for
\* an id that is not in present leave present unchanged.
C9_AbsentIdIsNoOp ==
    [][ /\ (CalledIn({"delete", "deleteKey", "syncDelete"})
              /\ Pos(history.present, op'.arg) = {}) =>
              history'.present = history.present
        /\ (CalledIn({"update", "syncUpdate"})
              /\ Pos(history.present, op'.arg.id) = {}) =>
              history'.present = history.present
      ]_vars

\* C10: reorder(forward) when the selected shape is last, and
\* reorder(backward) when the selected shape is first, leave present
\* unchanged; so do both when no shape is selected or the selected id is not
\* in present.
C10_EdgeReorderIsNoOp ==
    [][ LET P == Pos(history.present, selectedId) IN
        /\ (Called("forward")
              /\ (selectedId = NoId \/ P = {} \/ Len(history.present) \in P)) =>
              history'.present = history.present
        /\ (Called("backward") /\ (selectedId = NoId \/ P = {} \/ 1 \in P)) =>
              history'.present = history.present
      ]_vars

----------------------------------------------------------------------------
(* Properties of the sync engine *)

\* The step is the display receiving message m
Receives(m) == ev'.got = <<m>> /\ m \in toDisp \ toDisp'

\* The step is the controller's delayed send on its current channel
DelayedSend ==
    cTimers'.live < cTimers.live /\ cTimers'.stale = cTimers.stale

\* C11: a request_sync delivered to the controller schedules one delayed
\* send; the delayed send hands full_sync with the controller's scene to the
\* channel; and when the display receives a full_sync its present becomes
\* the payload, in that order, whatever it was before.
C11_FullSyncReplaces ==
    [][ /\ ev'.got = <<RequestSyncMsg>> /\ toCtl' < toCtl =>
              /\ cTimers'.live = cTimers.live + 1
              /\ ev'.sent = <<>>
        /\ DelayedSend => ev'.sent = <<FullSyncMsg(history.present)>>
        /\ \A m \in toDisp :
              Receives(m) /\ m.type = "full_sync" =>
                  display'.present = m.scene
      ]_vars

\* The display shows the controller's two shapes while the add of the second
\* is still in flight: it has them from a full_sync.
C11_Witness ==
    /\ Len(history.present) = 2
    /\ display.present = history.present
    /\ ev.got = <<FullSyncMsg(history.present)>>
    /\ \E m \in toDisp : m.type = "add_shape" /\ m.shape.id = history.present[2].id

\* What the sync entry point named by the kind of m makes of present
Applied(present, m) ==
    CASE m.type = "add_shape" -> present \o <<m.shape>>
      [] m.type = "update_shape" ->
            [i \in DOMAIN present |->
                IF present[i].id = m.shape.id THEN m.shape ELSE present[i]]
      [] m.type = "delete_shape" ->
            SelectSeq(present, LAMBDA s : s.id # m.id)
      [] m.type = "clear" -> <<>>
      [] m.type = "full_sync" -> m.scene
      [] OTHER -> present

\* C12: a display that receives a message applies the sync entry point of the
\* message's kind to the payload and does nothing else: it sends nothing,
\* schedules nothing, and the controller is untouched. In particular an add
\* of X received with an empty scene leaves the scene exactly [X].
C12_DispatchByKind ==
    [][\A m \in toDisp :
          Receives(m) =>
              /\ display' = [display EXCEPT !.present = Applied(@, m)]
              /\ (m.type = "add_shape" /\ display.present = <<>> =>
                      display'.present = <<m.shape>>)
              /\ ev'.sent = <<>>
              /\ toCtl' = toCtl
              /\ toDisp' = toDisp \ {m}
              /\ UNCHANGED ctlVars
      ]_vars

\* The display had an empty scene, received the add of X that the controller
\* broadcast, and now shows [X]
C12_Witness ==
    /\ Len(history.present) = 1
    /\ ev.got = <<AddMsg(history.present[1])>>
    /\ display.present = history.present
    /\ isConnected

\* C13: when the display stays subscribed, the controller's mutations come
\* to an end and the channel is fair to request_sync and full_sync messages
\* (any message may still be lost, overtaken or delayed), the display's
\* present eventually equals the controller's present, shape by shape in the
\* same order, and stays equal.
C13_EventuallyConsistent ==
    <>[]isConnected => <>[](display.present = history.present)

\* The controller has made its last mutation and the display, subscribed,
\* took over the controller's non-empty scene from a full_sync
C13_Witness ==
    /\ steps = MaxCtlSteps
    /\ isConnected
    /\ history.present # <<>>
    /\ ev.got = <<FullSyncMsg(history.present)>>
    /\ display.present = history.present
    /\ toDisp = {}

\* No two positions of a scene hold the same shape id
UniqueIds(scene) ==
    \A i, j \in DOMAIN scene : scene[i].id = scene[j].id => i = j

\* C14: shape ids are unique within present in every reachable state of the
\* controller and of the display, whatever the order in which the display
\* receives its messages.
C14_UniqueIds ==
    UniqueIds(history.present) /\ UniqueIds(display.present)

\* C15: every step of the controller page that changes present hands the
\* channel a message that carries the change: applied to the scene the
\* handler started from, the message gives the new present (a full_sync gives
\* it from any scene).
C15_MutationsBroadcast ==
    [][history'.present # history.present =>
          \E i \in DOMAIN ev'.sent :
              Applied(rendered.present, ev'.sent[i]) = history'.present
      ]_vars

\* The kinds of message a mutation handler broadcasts
MutationKinds == {"add_shape", "update_shape", "delete_shape", "clear"}

\* C16: in every step in which the controller hands an add, update, delete or
\* clear message to the channel, the present of the History Store after the
\* step is the handler's scene with that mutation applied, whether or not
\* the channel is subscribed and whether or not the message stays in flight.
C16_LocalFirst ==
    [][\A i \in DOMAIN ev'.sent :
          LET m == ev'.sent[i] IN
          m.type \in MutationKinds =>
              /\ history'.present = Applied(rendered.present, m)
              /\ m.type = "add_shape" =>
                    history'.present[Len(history'.present)] = m.shape
              /\ m.type = "delete_shape" =>
                    \A k \in DOMAIN history'.present :
                        history'.present[k].id # m.id
              /\ m.type = "clear" => history'.present = <<>>
      ]_vars

\* The controller added X while its channel was still subscribing and the
\* message did not get through: present is [X] all the same
C16_Witness ==
    /\ cChan = "subscribing"
    /\ Len(history.present) = 1
    /\ ev.sent = <<AddMsg(history.present[1])>>
    /\ toDisp = {}

\* The step is the display's channel reporting SUBSCRIBED
BecomesSubscribed ==
    display.status # "subscribed" /\ display'.status = "subscribed"

\* The step is the display's handshake timer firing on the current channel
HandshakeFires ==
    display'.live < display.live /\ display'.stale = display.stale

\* C17: a display whose channel becomes subscribed sends nothing in that step
\* and schedules exactly one delayed send; when the delay has passed it emits
\* exactly one request_sync with empty payload; a controller whose channel
\* becomes subscribed sends nothing and schedules nothing.
C17_HandshakeOnSubscribe ==
    [][ /\ BecomesSubscribed =>
              /\ ev'.sent = <<>>
              /\ toCtl' = toCtl
              /\ display'.live = display.live + 1
        /\ HandshakeFires =>
              /\ display'.live = display.live - 1
              /\ ev'.sent = <<RequestSyncMsg>>
              /\ RequestSyncMsg.shape = NoShape
              /\ RequestSyncMsg.id = NoId
              /\ RequestSyncMsg.scene = <<>>
              /\ toCtl' \in {toCtl, toCtl + 1}
        /\ cChan # "subscribed" /\ cChan' = "subscribed" =>
              /\ ev'.sent = <<>>
              /\ toDisp' = toDisp
              /\ cTimers' = cTimers
      ]_vars

\* The display's handshake request_sync is in flight, the only message ever
\* sent so far, while the controller has subscribed too
C17_Witness ==
    /\ isConnected
    /\ cChan = "subscribed"
    /\ ev.sent = <<RequestSyncMsg>>
    /\ toCtl = 1
    /\ display.live = 0
    /\ toDisp = {}
    /\ steps = 0

\* The step is a delayed send of the controller, scheduled on its current
\* channel or on one it has left since
CtlTimerFires ==
    cTimers'.live + cTimers'.stale < cTimers.live + cTimers.stale

HeartbeatSent == ev.beat /\ ev.sent = <<RequestSyncMsg>>

\* C19 as stated: a display that has subscribed and stays mounted sends
\* request_sync from its interval again and again, whatever connectivity it
\* observes.
C19_HeartbeatAlways ==
    <>[](display.mounted /\ display.status # "subscribing") =>
        []<>HeartbeatSent

\* C19: the interval of a mounted display sends request_sync only when the
\* display observes its channel as subscribed; a display that stays mounted
\* and subscribed sends request_sync from its interval again and again.
C19_HeartbeatWhileConnected ==
    /\ [][ev'.beat =>
             /\ display.mounted
             /\ ev'.sent = IF isConnected THEN <<RequestSyncMsg>> ELSE <<>>
          ]_vars
    /\ (<>[]isConnected => []<>HeartbeatSent)

\* The interval of a subscribed display has just sent a request_sync, which
\* is in flight, after the display took a scene from the controller
C19_Witness ==
    /\ HeartbeatSent
    /\ isConnected
    /\ toCtl > 0
    /\ display.live = 0
    /\ display.present # <<>>

\* The step is a delayed send firing after the channel it was scheduled on
\* was unsubscribed: of the controller, or of the display
LateTimerFires ==
    \/ cTimers'.stale < cTimers.stale
    \/ display'.stale < display.stale

\* C20: a delayed send that was pending when its channel was unsubscribed
\* (the controller's on resubscription, the display's on unmount) sends
\* nothing when its delay has passed.
C20_NoSendAfterTeardown ==
    [][LateTimerFires => ev'.sent = <<>>]_vars

----------------------------------------------------------------------------
(* Properties of the persistence gateway *)

\* A save, explicit or by the autosave timeout, of a scene whose
\* serialization is the baseline, to an existing record id
SavesUnchanged ==
    \/ /\ PSave
       /\ page.currentDrawingId # NoDrawing
       /\ Ser(rendered.present) = lastSavedRef
    \/ /\ PAutosave
       /\ autosaveTimerRef.id # NoDrawing
       /\ Ser(autosaveTimerRef.shapes) = lastSavedRef

\* The save calls a step answers
SavesAnswered == {c \in calls \ calls' : c.kind \in {"update", "insert"}}

\* C21: a successful save makes the serialization of the saved scene the
\* baseline, and a save to an existing record id of a scene whose
\* serialization is the baseline sends nothing to the store, writes nothing
\* and returns the record id: of two saves in a row of an unchanged scene
\* at most the first writes.
C21_DedupSkips ==
    [][/\ \A c \in SavesAnswered :
              pev'.ok => lastSavedRef' = Ser(c.shapes)
       /\ SavesUnchanged =>
              /\ calls' = calls
              /\ db' = db
              /\ pev'.kind = "skip" /\ pev'.ok
              /\ pev'.id \in {page.currentDrawingId, autosaveTimerRef.id}
                             \ {NoDrawing}]_vars

\* A save was skipped after a save that wrote the same scene to the record
C21_Witness ==
    /\ pev.kind = "skip"
    /\ db[pev.id].live
    /\ db[pev.id].at > 1
    /\ Ser(db[pev.id].data) = lastSavedRef

\* C22: an explicit save from a render with no active record id sends an
\* insert, and a successful insert adds exactly one record, which holds the
\* saved scene and whose id becomes the active record id; an explicit save
\* from a render with an active record id sends, if anything, an update of
\* that id, and a successful update changes no other record and adds none
\* (the number of records does not grow), the record having the saved scene
\* afterwards.
C22_InsertThenUpdate ==
    [][/\ PSave =>
            /\ page.currentDrawingId = NoDrawing => calls' # calls
            /\ \A c \in calls' \ calls :
                  IF page.currentDrawingId = NoDrawing
                  THEN c.kind = "insert"
                  ELSE c.kind = "update" /\ c.id = page.currentDrawingId
       /\ \A c \in SavesAnswered :
            pev'.ok =>
              IF c.kind = "insert"
              THEN /\ pev'.id \notin LiveRecs
                   /\ LiveRecs' = LiveRecs \cup {pev'.id}
                   /\ \A r \in LiveRecs : db'[r] = db[r]
                   /\ db'[pev'.id].data = c.shapes
                   /\ currentDrawingId' = pev'.id
              ELSE /\ LiveRecs' = LiveRecs
                   /\ \A r \in RecIds \ {c.id} : db'[r] = db[r]
                   /\ c.id \in LiveRecs => db'[c.id].data = c.shapes
                   /\ currentDrawingId' = currentDrawingId]_vars

\* The active record, the only one, was updated in place with a changed
\* scene by a save
C22_Witness ==
    /\ pev.kind = "update" /\ pev.ok /\ pev.wrote
    /\ currentDrawingId = pev.id
    /\ LiveRecs = {pev.id}
    /\ db[pev.id].at > 1
    /\ db[pev.id].data # StoredScene

\* C23: an explicit save with a name to an existing record id that returns
\* the id leaves the record with that name, whether the scene is the one
\* last saved or not.
C23_SaveRenames ==
    [][/\ \A name \in Names :
            handleSave(name) /\ pev'.ok /\ db'[pev'.id].live =>
                db'[pev'.id].name = name
       /\ \A c \in SavesAnswered :
            c.kind = "update" /\ c.name # NoName /\ pev'.ok
            /\ db'[c.id].live => db'[c.id].name = c.name]_vars

\* The load calls a step answers
LoadsAnswered == {c \in calls \ calls' : c.kind = "select"}

\* The autosave timeout set by the render of a loaded scene fires, the scene
\* not having changed since the load
AutosaveOfLoaded ==
    /\ PAutosave
    /\ page.loaded # NoDrawing
    /\ ~page.pending
    /\ autosaveTimerRef.id = page.loaded
    /\ autosaveTimerRef.shapes = history.present

\* C24: a successful load of record R makes R the active record, makes
\* present the loaded scene while past and future stay as they are, and
\* makes the serialization of the loaded scene the baseline; and the
\* autosave that fires for the loaded scene, with no change of the scene
\* since the load, sends nothing to the store.
C24_LoadSetsBaseline ==
    [][/\ \A c \in LoadsAnswered :
            pev'.ok =>
              /\ currentDrawingId' = c.id
              /\ history'.present = db[c.id].data
              /\ history'.past = history.past
              /\ history'.future = history.future
              /\ lastSavedRef' = Ser(db[c.id].data)
       /\ AutosaveOfLoaded => calls' = calls]_vars

\* The delete calls a step answers
DeletesAnswered == {c \in calls \ calls' : c.kind = "delete"}

\* C25: a successful delete of record D leaves no record D; it clears the
\* active record id if D is the active record and leaves it as it is
\* otherwise; and a deleted record never comes back, whatever save is
\* answered later.
C25_DeleteClearsActive ==
    [][/\ \A c \in DeletesAnswered :
            pev'.ok =>
              /\ ~db'[c.id].live
              /\ currentDrawingId' = IF currentDrawingId = c.id
                                     THEN NoDrawing ELSE currentDrawingId
       /\ \A r \in RecIds \ FreshRecs : ~db[r].live => ~db'[r].live]_vars

\* The calls a step answers
Answered == calls \ calls'

\* C26: when a call of the durable store fails, the operation returns null
\* (load, save) or false (delete) and sets the error, the store, the active
\* record id, the baseline and the scene stay as they are, and the step is
\* an ordinary step of the page (nothing is thrown); so the same save,
\* called again, is sent again and not skipped.
C26_FailureLeavesState ==
    [][\A c \in Answered :
          ~pev'.ok =>
            /\ error' = (IF c.kind \in {"update", "insert"} THEN "save"
                         ELSE IF c.kind = "select" THEN "load" ELSE "delete")
            /\ UNCHANGED <<db, currentDrawingId, lastSavedRef, history>>
            /\ (c.kind = "update" /\ Ser(c.shapes) # lastSavedRef =>
                   Ser(c.shapes) # lastSavedRef')]_vars

\* A save failed and the same save, called again, was sent to the store
\* and wrote the record
C26_Witness ==
    /\ error = "save"
    /\ pev.kind = "update" /\ pev.ok /\ pev.wrote
    /\ db[pev.id].data = rendered.present
    /\ db[pev.id].at = 2

\* C27: the cache mirrors the scene: a step that changes present writes the
\* new present to the cache or leaves a render due that will; a write that
\* succeeds makes the cache entry the serialization of the rendered shapes;
\* a write that fails leaves the cache, the store and, in a render, the
\* scene as they are; and whenever the page is mounted with no render due
\* and the last write succeeded, the cache entry is the serialization of
\* present.
C27_CacheMirrorsPresent ==
    /\ [](page.mounted /\ ~page.pending /\ page.cached = "written" =>
              cache = Ser(history.present))
    /\ [][/\ history'.present # history.present =>
                page'.pending \/ cache' = Ser(history'.present)
                \/ page'.cached = "failed"
          /\ cache' # cache => cache' = Ser(rendered'.present)
          /\ (PMount \/ PRender) /\ page'.cached = "failed" =>
                /\ cache' = cache /\ db' = db
                /\ history'.present = history.present \/ PMount]_vars

\* The scene was changed by the user and the cache holds the new scene
C27_Witness ==
    /\ page.mounted /\ ~page.pending /\ page.cached = "written"
    /\ history.present # <<>>
    /\ history.present # StoredScene
    /\ cache = Ser(history.present)

----------------------------------------------------------------------------
(* Properties of the display page's fallback *)

\* The timeout's callback performs the fallback load: it awaits loadDrawing
\* or reads the cache
FallbackBegins == FbTimeout /\ fallback'.did \in {"store", "cache"}

\* C28 as stated: once the channel has been subscribed before any fallback
\* load began, no fallback load is performed in this mount.
C28_FallbackSkippedForever ==
    fallback.won => ~fallback.fallbackLoaded /\ fallback.loading = 0

\* C28: when the channel is subscribed the pending timeout is cleared, no
\* timeout is pending and no fallback load begins while the display is
\* connected; when connectivity is lost a timeout is armed again, and a
\* fallback load begins only from a timeout that fires while the display is
\* not connected and that was armed with fallbackLoaded false.
C28_NoFallbackWhileConnected ==
    /\ [](isConnected => ~fallback.timer.armed)
    /\ [][/\ isConnected /\ ~isConnected' => fallback'.timer.armed
          /\ FallbackBegins =>
                ~isConnected /\ ~fallback.timer.fallbackLoaded]_vars

\* The channel was subscribed first, connectivity was lost, and the fallback
\* load was performed
C28_Witness ==
    /\ fallback.won
    /\ fallback.fallbackLoaded
    /\ ~isConnected

\* The scene the fallback gave: fallbackShapes || []
FallbackScene ==
    IF fallback.fallbackShapes = Null THEN <<>>
    ELSE fallback.fallbackShapes[1]

\* The most recently updated record of the store
MostRecent == CHOOSE r \in LiveRecs : \A q \in LiveRecs : db[q].at <= db[r].at

\* A step that completes a fallback load
FallbackCompletes ==
    \/ FbLoaded
    \/ FbTimeout /\ fallback'.did = "cache"

\* C29: a fallback load gives the scene of the most recently updated
\* record when a record was obtained from the store, and otherwise the
\* scene of the local cache if there is one, and otherwise the empty scene.
C29_FallbackOrder ==
    [][FallbackCompletes =>
          FallbackScene' = IF fallback'.did = "loaded"
                           THEN db[MostRecent].data
                           ELSE IF cache # NoEntry THEN Parse(cache)
                           ELSE <<>>]_vars

\* The step delivers a full_sync to the connected display
GetsFullSync ==
    /\ isConnected
    /\ \E i \in DOMAIN ev'.got : ev'.got[i].type = "full_sync"

\* C30 as stated: after a fallback load the display shows the fallback
\* scene until a step in which it receives a full_sync while connected.
C30_FallbackUntilFullSync ==
    [][/\ fallback.fallbackLoaded
       /\ displayShapes = FallbackScene
       /\ displayShapes' # FallbackScene'
       => GetsFullSync]_vars

\* C30: the display shows the fallback scene in every state in which it is
\* ready and not connected, and the scene of its history store in every
\* state in which it is connected, a full_sync received or not; after a
\* fallback load the shown scene changes only when the connectivity
\* changes, when a message is applied while connected, or when another
\* fallback load completes.
C30_ShowsFallbackWhileDisconnected ==
    /\ [](fallback.isReady /\ ~isConnected => displayShapes = FallbackScene)
    /\ [](isConnected => displayShapes = display.present)
    /\ [][fallback.fallbackLoaded /\ displayShapes' # displayShapes =>
             \/ isConnected' # isConnected
             \/ isConnected /\ ev'.got # <<>>
             \/ FallbackCompletes]_vars

\* After a fallback load that gave a scene, the channel is subscribed and
\* the display shows the empty scene of its history store
C30_Witness ==
    /\ fallback.fallbackLoaded
    /\ FallbackScene # <<>>
    /\ isConnected
    /\ display.present = <<>>
    /\ displayShapes = <<>>

\* C31: a display that is open is eventually ready, whether or not its
\* channel is ever subscribed; and when the timeout's callback runs the
\* fallback with no drawing in the store and nothing in the cache, the
\* display is ready and shows the empty scene.
C31_EventuallyReady ==
    /\ <>fallback.isReady
    /\ [][FbTimeout /\ ~fallback.timer.fallbackLoaded
          /\ LiveRecs = {} /\ cache = NoEntry =>
             fallback'.isReady /\ displayShapes' = <<>>]_vars

\* The channel was never subscribed, the store and the cache are empty, and
\* the display is ready with the empty scene
C31_Witness ==
    /\ fallback.isReady
    /\ fallback.flips = 0
    /\ fallback.fallbackLoaded
    /\ LiveRecs = {} /\ cache = NoEntry
    /\ displayShapes = <<>>

\* C32: a received full_sync(P) makes present P whatever present was, and a
\* received full_sync, delete or update that repeats the message received
\* just before it (same kind, same argument) leaves present as it is.
C32_SyncIdempotent ==
    [][ /\ Called("syncFullSync") => history'.present = op'.arg
        /\ CalledIn({"syncFullSync", "syncDelete", "syncUpdate"})
           /\ op'.repeat => history'.present = history.present
        /\ Called("syncDelete") =>
              history'.present =
                  SelectSeq(history.present, LAMBDA s : s.id # op'.arg)
        /\ Called("syncUpdate") =>
              history'.present =
                  [i \in 1..Len(history.present) |->
                      IF history.present[i].id = op'.arg.id
                      THEN op'.arg ELSE history.present[i]] ]_vars

\* A delete that removed nothing new: the same delete was received twice in
\* a row and the scene still holds another shape
C32_Witness ==
    /\ op.kind = "syncDelete"
    /\ op.repeat
    /\ history.present # <<>>

\* Scene q holds the shapes of scene p, each as many times
PermutationOf(q, p) ==
    /\ Len(q) = Len(p)
    /\ \A x \in Shape :
          Cardinality({i \in 1..Len(q) : q[i] = x})
              = Cardinality({i \in 1..Len(p) : p[i] = x})

\* Scene p with the entries at positions i and j exchanged
Exchanged(p, i, j) ==
    [k \in 1..Len(p) |-> IF k = i THEN p[j] ELSE IF k = j THEN p[i] ELSE p[k]]

\* C33: a reorder of the selected shape, at position i of present, gives a
\* permutation of present: forward exchanges positions i and i+1, backward
\* i and i-1, front moves the shape to the end and back to the beginning,
\* the other shapes keeping their order.
C33_ReorderPermutes ==
    [][ CalledIn(ReorderKinds) =>
        LET p == history.present
            q == history'.present
            P == Pos(p, selectedId)
            others == SelectSeq(p, LAMBDA s : s.id # selectedId)
        IN /\ PermutationOf(q, p)
           /\ \A i \in P : (\A j \in P : i <= j) =>
                 /\ Called("forward") /\ i < Len(p) =>
                       q = Exchanged(p, i, i + 1)
                 /\ Called("backward") /\ i > 1 =>
                       q = Exchanged(p, i, i - 1)
                 /\ Called("front") => q = others \o <<p[i]>>
                 /\ Called("back") => q = <<p[i]>> \o others
      ]_vars

\* The step is the autosave timeout firing
AutosaveFires ==
    autosaveTimerRef.armed /\ ~autosaveTimerRef'.armed /\ page'.mounted

\* C34: a rendered scene change replaces the pending autosave timeout by a
\* new one over the new scene and begins no write; a timeout that fires
\* begins at most one write, an update carrying the scene of the latest
\* rendered change; and it begins none when the session as rendered has no
\* active record id.
C34_AutosaveDebounce ==
    [][ /\ rendered'.present # rendered.present =>
              /\ autosaveTimerRef' = [armed  |-> TRUE,
                                      shapes |-> rendered'.present,
                                      id     |-> page'.currentDrawingId]
              /\ calls' \subseteq calls
        /\ AutosaveFires =>
              /\ Cardinality(calls' \ calls) <= 1
              /\ \A c \in calls' \ calls :
                    c.kind = "update" /\ c.shapes = rendered.present
              /\ page.currentDrawingId = NoDrawing =>
                    calls' = calls /\ db' = db
      ]_vars

\* After two changes of a scene with an active record, the timeout has fired
\* and one update carrying the scene with both changes is in flight
C34_Witness ==
    /\ ~autosaveTimerRef.armed
    /\ pev.kind = "begin"
    /\ steps = MaxUserSteps
    /\ Cardinality(calls) = 1
    /\ \E c \in calls :
          /\ c.kind = "update" /\ c.name = NoName
          /\ c.shapes = history.present
          /\ Len(c.shapes) = 2

\* The step sends request_sync
SendsRequestSync ==
    \E i \in 1..Len(ev'.sent) : ev'.sent[i].type = "request_sync"

\* Closing a page clears the autosave timeout, which begins no write from
\* then on, and the heartbeat interval, which does not fire on a closed
\* display; and the display's channel is unsubscribed.
UnmountCancelsTimers ==
    [][ /\ page'.closed => ~autosaveTimerRef'.armed
        /\ page.closed => calls' \subseteq calls
        /\ ~display.mounted /\ ~display'.mounted => ~ev'.beat
        /\ display.mounted /\ ~display'.mounted => display'.status = "closed"
      ]_vars

\* C35: after a client is unmounted its autosave timeout and its heartbeat
\* interval do not fire: no autosave write is begun and no request_sync is
\* sent after the unmount, and the channel is unsubscribed.
C35_NothingAfterUnmount ==
    [][ /\ page'.closed => ~autosaveTimerRef'.armed
        /\ page.closed => calls' \subseteq calls
        /\ display.mounted /\ ~display'.mounted => display'.status = "closed"
        /\ ~display.mounted /\ ~display'.mounted =>
              ~ev'.beat /\ ~SendsRequestSync
      ]_vars

\* C36: the display performs the fallback load at most once: the timeout's
\* callback begins a fallback load only when none has completed and none is
\* still awaiting its loadDrawing, however the timeout, the answers of the
\* store and the changes of connectivity interleave.
C36_FallbackOnce ==
    [][FallbackBegins =>
          ~fallback.fallbackLoaded /\ fallback.loading = 0]_vars

\* The step is an undo / a redo of the controller that moves present
UndoMoves ==
    /\ history.past # <<>>
    /\ history' = [past    |-> SubSeq(history.past, 1, Len(history.past) - 1),
                   present |-> history.past[Len(history.past)],
                   future  |-> <<history.present>> \o history.future]
    /\ selectedId' = NoId
    /\ \A i \in DOMAIN ev'.sent : ev'.sent[i].type \notin MutationKinds

RedoMoves ==
    /\ history.future # <<>>
    /\ history' = [past    |-> Append(history.past, history.present),
                   present |-> Head(history.future),
                   future  |-> Tail(history.future)]
    /\ selectedId' = NoId
    /\ \A i \in DOMAIN ev'.sent : ev'.sent[i].type \notin MutationKinds

\* The step is handleLoad after its await, which broadcasts the loaded scene
\* itself and is rendered later
LoadStep ==
    /\ steps' = steps + 1
    /\ rendered' = rendered
    /\ history'.past = history.past
    /\ history'.future = history.future

\* C37: every undo or redo of the controller that moves present hands the
\* channel a full_sync carrying the new present, and the effect after
\* undo/redo hands the channel a full_sync in no other step: not after an
\* undo with empty past or a redo with empty future, and not at a later
\* change of the scene.
C37_FullSyncAfterUndoRedo ==
    [][ /\ UndoMoves \/ RedoMoves =>
              \E i \in DOMAIN ev'.sent :
                  ev'.sent[i] = FullSyncMsg(history'.present)
        /\ (\E i \in DOMAIN ev'.sent : ev'.sent[i].type = "full_sync")
           /\ ~LoadStep => UndoMoves \/ RedoMoves
      ]_vars

\* C38: a controller mutator computes its new present from the present of
\* the store when it is called, so a change that is not rendered yet (a
\* received message, another mutator) is kept: add appends to present,
\* update replaces the shape in present, delete removes the shape from
\* present.
C38_NoLostUpdate ==
    [][ LET cur == history.present
            a   == op'.arg
        IN /\ Called("add") => history'.present = cur \o <<a>>
           /\ Called("update") =>
                 history'.present =
                     [i \in 1..Len(cur) |->
                         IF cur[i].id = a.id THEN a ELSE cur[i]]
           /\ CalledIn({"delete", "deleteKey"}) =>
                 history'.present = SelectSeq(cur, LAMBDA s : s.id # a)
      ]_vars

\* length(past) + length(future)
Depth(h) == Len(h.past) + Len(h.future)

\* C39: past and future together never hold more than MAX_HISTORY scenes:
\* undo and redo keep the sum, a commit leaves future empty and past with at
\* most MAX_HISTORY entries, and the sync entry points and
\* setShapes(scene, false) change neither past nor future.
C39_DepthBounded ==
    /\ [](Depth(history) <= MAX_HISTORY)
    /\ [][ /\ CalledIn({"undo", "redo"}) => Depth(history') = Depth(history)
           /\ CalledIn(MutatorKinds) =>
                 /\ history'.future = <<>>
                 /\ Len(history'.past) <= MAX_HISTORY
           /\ CalledIn(SyncKinds \cup {"setSceneNoHistory"}) =>
                 /\ history'.past = history.past
                 /\ history'.future = history.future
         ]_vars

\* After more than MAX_HISTORY mutations some of them are undone: past and
\* future are both non-empty and hold MAX_HISTORY scenes together
C39_Witness ==
    /\ steps > MAX_HISTORY
    /\ op.kind \in {"undo", "redo"}
    /\ Len(history.past) > 0
    /\ Len(history.future) > 0
    /\ Depth(history) = MAX_HISTORY

\* The inserts among a set of calls
Inserts(C) == {c \in C : c.kind = "insert"}

\* C40: explicit saves of a session with no active record id create one
\* record: a save begun while the insert of an earlier save is still
\* unanswered sends no second insert.
C40_OneInsert ==
    [][Inserts(calls) # {} => Inserts(calls' \ calls) = {}]_vars

====
